---------------------------- MODULE Spec2Model ----------------------------
(***************************************************************************)
(* The schedule page of the festival schedule viewer (the Svelte page in   *)
(* src/unnamed/part_000): its view state, the reactive blocks that derive  *)
(* the visible stages, the current performances and the chronological      *)
(* list, and the pure helpers they call (timeToMinutes,                    *)
(* getLivestreamLink).                                                     *)
(*                                                                         *)
(* Strings the code takes apart character by character (the "HH:MM" time   *)
(* strings) are sequences of one-character strings.  Strings the code only *)
(* compares or sorts (stage names, days, artists) are TLA+ strings; the    *)
(* default Array.prototype.sort order of stage names is computed from      *)
(* their UTF-16 code units.                                                *)
(***************************************************************************)
EXTENDS Integers, Sequences, FiniteSets, TLC

VARIABLES
    schedule,                  \* the dataset, never reassigned
    selectedDay,               \* <select bind:value={selectedDay}>
    selectedTime,              \* <input type="range" bind:value={selectedTime}>
    hideEmptyStages,           \* checkbox
    hideNoStreamStages,        \* checkbox
    stages,                    \* derived: the visible stage list
    filteredPerformances,      \* derived: the performances current now
    chronologicalPerformances, \* derived: all performances, sorted
    searchTerm,                \* <input type="text" bind:value={searchTerm}>
    filteredChronologicalPerformances, \* derived: the list the search leaves
    selectedTimezone,          \* <select bind:value={selectedTimezone}>
    localOption,               \* availableTimezones[0], the "Local" option
    now,                       \* the clock, as the last handler that read it saw it
    readBy,                    \* the handler that read the clock last
    userTimezone,              \* what the browser reported as its zone
    activeTab,                 \* 'schedule' or 'list'
    theme,                     \* the value of the theme store
    storedTheme,               \* localStorage's item 'theme'
    dataTheme,                 \* the document element's data-theme attribute
    scheduleData,              \* schedule.json, as imported
    call,                      \* a direct call of a pure helper: its arguments
    ret                        \* ... and what it returned

vars == <<schedule, selectedDay, selectedTime, hideEmptyStages,
          hideNoStreamStages, stages, filteredPerformances,
          chronologicalPerformances, searchTerm,
          filteredChronologicalPerformances, selectedTimezone, localOption,
          now, readBy, userTimezone, activeTab, theme, storedTheme,
          dataTheme, scheduleData, call, ret>>

\* The tab, the theme and the imported file.
shellVars == <<activeTab, theme, storedTheme, dataTheme, scheduleData>>

\* What the schedule tab's controls leave alone besides the dataset.
pageVars == <<searchTerm, filteredChronologicalPerformances,
              selectedTimezone, localOption, now, readBy, userTimezone,
              shellVars>>

viewVars == <<schedule, selectedDay, selectedTime, hideEmptyStages,
              hideNoStreamStages, stages, filteredPerformances,
              chronologicalPerformances, pageVars>>

-----------------------------------------------------------------------------
(* Bounds of the model *)

\* Longest dataset explored.
MaxLen == 2

\* How many slider steps one input event of the range control moves the
\* thumb.  Every slider position stays reachable; the bound only limits the
\* fan-out of a single event.
MaxSlide == 1

-----------------------------------------------------------------------------
(* JavaScript values *)

undefined == "undefined"

\* A JavaScript number that may be NaN.
NaN == [nan |-> TRUE, val |-> 0]

Num(n) == [nan |-> FALSE, val |-> n]

JsAdd(a, b) == IF a.nan \/ b.nan THEN NaN ELSE Num(a.val + b.val)

JsSub(a, b) == IF a.nan \/ b.nan THEN NaN ELSE Num(a.val - b.val)

JsMul(a, b) == IF a.nan \/ b.nan THEN NaN ELSE Num(a.val * b.val)

\* Every comparison with NaN is false.
JsLt(a, b) == ~a.nan /\ ~b.nan /\ a.val < b.val

JsGe(a, b) == ~a.nan /\ ~b.nan /\ a.val >= b.val

Digits == <<"0", "1", "2", "3", "4", "5", "6", "7", "8", "9">>

\* The value of each decimal digit.
DigitValues ==
    "0" :> 0 @@ "1" :> 1 @@ "2" :> 2 @@ "3" :> 3 @@ "4" :> 4 @@
    "5" :> 5 @@ "6" :> 6 @@ "7" :> 7 @@ "8" :> 8 @@ "9" :> 9

IsDigit(c) == c \in DOMAIN DigitValues

DigitValue(c) == DigitValues[c]

RECURSIVE DecimalValue(_)
DecimalValue(s) ==
    IF s = <<>> THEN 0
    ELSE 10 * DecimalValue(SubSeq(s, 1, Len(s) - 1)) + DigitValue(s[Len(s)])

\* Number(s) for the strings the model feeds it: the empty string is 0, a
\* string of decimal digits is its value, anything else is NaN.
Number(s) ==
    IF s = <<>> THEN Num(0)
    ELSE IF \A i \in 1..Len(s) : IsDigit(s[i]) THEN Num(DecimalValue(s))
    ELSE NaN

\* String.prototype.split(':'): the pieces between the colons.
RECURSIVE split(_)
split(s) ==
    LET colons == {i \in 1..Len(s) : s[i] = ":"}
    IN  IF colons = {} THEN <<s>>
        ELSE LET k == CHOOSE i \in colons : \A j \in colons : i <= j
             IN  <<SubSeq(s, 1, k - 1)>> \o split(SubSeq(s, k + 1, Len(s)))

-----------------------------------------------------------------------------
(* Program constants *)

days == <<"Friday", "Saturday", "Sunday">>

Days == {days[i] : i \in 1..Len(days)}

sliderMin == 720

sliderMax == 1560

sliderStep == 5

SliderValues == {t \in sliderMin..sliderMax : (t - sliderMin) % sliderStep = 0}

\* const livestreamLinks.  typeof tells the two shapes of value apart: an
\* identifier, or an object from day to identifier.  Yuma has no entry.
livestreamLinks ==
    [x \in {"Coachella Stage", "Outdoor Theatre", "Sahara", "Mojave", "Gobi",
            "Sonora", "Quasar"} |->
        CASE x = "Coachella Stage" -> [typeof |-> "string", value |-> "Y2FzDMuJ5pI"]
          [] x = "Outdoor Theatre" -> [typeof |-> "string", value |-> "WxwawRL_nY8"]
          [] x = "Sahara" -> [typeof |-> "string", value |-> "afO7r8TQTSw"]
          [] x = "Mojave" -> [typeof |-> "string", value |-> "BajnpDN6vG8"]
          [] x = "Gobi" -> [typeof |-> "string", value |-> "Kg-KswkXoBg"]
          [] x = "Sonora" -> [typeof |-> "string", value |-> "TdHrgLciYWw"]
          [] x = "Quasar" ->
                [typeof |-> "object",
                 value |-> [Friday |-> "1MOJG5VTh-Y",
                            Saturday |-> "SreThbvUUI8",
                            Sunday |-> "jKWRY1btTOs"]]]

\* The UTF-16 code units of the stage names the model uses: what the default
\* Array.prototype.sort compares.
CodeUnits ==
    [x \in {"Quasar", "S1", "Sahara", "Yuma"} |->
        CASE x = "Quasar" -> <<81, 117, 97, 115, 97, 114>>
          [] x = "S1" -> <<83, 49>>
          [] x = "Sahara" -> <<83, 97, 104, 97, 114, 97>>
          [] x = "Yuma" -> <<89, 117, 109, 97>>]

-----------------------------------------------------------------------------
(* Time conversion *)

timeToMinutes_NoWrap(timeStr) ==
    IF timeStr = <<>> THEN Num(0)
    ELSE LET parts == split(timeStr)
             hours == Number(parts[1])
             minutes == IF Len(parts) >= 2 THEN Number(parts[2]) ELSE NaN
         IN  JsAdd(JsMul(hours, Num(60)), minutes)

timeToMinutes_WrapAt6(timeStr) ==
    IF timeStr = <<>> THEN Num(0)
    ELSE LET parts == split(timeStr)
             hours == Number(parts[1])
             minutes == IF Len(parts) >= 2 THEN Number(parts[2]) ELSE NaN
         IN  IF JsLt(hours, Num(6))
             THEN JsAdd(JsMul(JsAdd(hours, Num(24)), Num(60)), minutes)
             ELSE JsAdd(JsMul(hours, Num(60)), minutes)

\* function timeToMinutes(timeStr).  A missing minutes part is undefined,
\* which the arithmetic turns into NaN.
timeToMinutes(timeStr) ==
    IF timeStr = <<>> THEN Num(0)
    ELSE LET parts == split(timeStr)
             hours == Number(parts[1])
             minutes == IF Len(parts) >= 2 THEN Number(parts[2]) ELSE NaN
         IN  IF JsLt(hours, Num(5))
             THEN JsAdd(JsMul(JsAdd(hours, Num(24)), Num(60)), minutes)
             ELSE JsAdd(JsMul(hours, Num(60)), minutes)

-----------------------------------------------------------------------------
(* The dataset *)

\* "HH:MM" as the dataset writes it: two digits, a colon, two digits.
HHMM(h, m) ==
    <<Digits[(h \div 10) + 1], Digits[(h % 10) + 1], ":",
      Digits[(m \div 10) + 1], Digits[(m % 10) + 1]>>

Performance(artist, stage, day, start, end) ==
    [artist |-> artist, stage |-> stage, day |-> day, start |-> start,
     end |-> end]

\* The performances datasets are made of: sets that cross midnight, two
\* that start together on one stage and day, one that starts before 16:00,
\* a stage with a fixed stream (Sahara), the stage whose stream changes by
\* day (Quasar) and two stages without a stream (Yuma, S1).
Pool ==
    { Performance("A", "S1", "Friday", HHMM(23, 50), HHMM(0, 20)),
      Performance("B", "Quasar", "Friday", HHMM(22, 0), HHMM(0, 10)),
      Performance("dj snake", "Quasar", "Friday", HHMM(22, 0), HHMM(23, 50)),
      Performance("C", "Sahara", "Saturday", HHMM(15, 0), HHMM(16, 30)),
      Performance("D", "Yuma", "Sunday", HHMM(15, 0), HHMM(17, 0)) }

\* let schedule = scheduleData: any sequence of up to MaxLen different
\* performances.
Datasets ==
    {f \in UNION {[1..n -> Pool] : n \in 0..MaxLen} :
        \A i, j \in DOMAIN f : f[i] = f[j] => i = j}

-----------------------------------------------------------------------------
(* Livestream resolver *)

getLivestreamLink_AnyDay(stageName, day) ==
    IF stageName \notin DOMAIN livestreamLinks THEN undefined
    ELSE LET linkData == livestreamLinks[stageName]
         IN  IF linkData.typeof = "string" THEN linkData.value
             ELSE IF linkData.typeof = "object" THEN linkData.value.Friday
             ELSE undefined

\* function getLivestreamLink(stageName).  day is the component's
\* selectedDay, which the function reads.
getLivestreamLink(stageName, day) ==
    IF stageName \notin DOMAIN livestreamLinks THEN undefined
    ELSE LET linkData == livestreamLinks[stageName]
         IN  IF linkData.typeof = "string" THEN linkData.value
             ELSE IF linkData.typeof = "object"
                  THEN IF day \in DOMAIN linkData.value
                       THEN linkData.value[day]
                       ELSE undefined
             ELSE undefined

-----------------------------------------------------------------------------
(* Arrays *)

\* Array.prototype.includes
includes(seq, x) == \E i \in 1..Len(seq) : seq[i] = x

\* [...new Set(seq)]: the distinct elements, each at its first occurrence.
RECURSIVE unique(_)
unique(seq) ==
    IF seq = <<>> THEN <<>>
    ELSE LET front == unique(SubSeq(seq, 1, Len(seq) - 1))
             x == seq[Len(seq)]
         IN  IF includes(front, x) THEN front ELSE Append(front, x)

\* Array.prototype.map(p => p.stage)
stageOf(seq) == [i \in 1..Len(seq) |-> seq[i].stage]

\* The default sort order: a < b by UTF-16 code units.
RECURSIVE CodeUnitsLess(_, _)
CodeUnitsLess(a, b) ==
    IF b = <<>> THEN FALSE
    ELSE IF a = <<>> THEN TRUE
    ELSE IF a[1] # b[1] THEN a[1] < b[1]
    ELSE CodeUnitsLess(Tail(a), Tail(b))

StringLess(a, b) == CodeUnitsLess(CodeUnits[a], CodeUnits[b])

\* One step of a stable sort: x goes in front of the first element that
\* sorts after it.
InsertString(sorted, x) ==
    LET after == {i \in 1..Len(sorted) : StringLess(x, sorted[i])}
        k == IF after = {} THEN Len(sorted) + 1
             ELSE CHOOSE i \in after : \A j \in after : i <= j
    IN  SubSeq(sorted, 1, k - 1) \o <<x>> \o SubSeq(sorted, k, Len(sorted))

\* Array.prototype.sort() with no comparator.
RECURSIVE sort(_)
sort(seq) ==
    IF seq = <<>> THEN <<>>
    ELSE InsertString(sort(SubSeq(seq, 1, Len(seq) - 1)), seq[Len(seq)])

-----------------------------------------------------------------------------
(* The reactive block that filters by day and time *)

\* const stagesForDay
stagesForDay_AllDays(sched, day) ==
    sort(unique(stageOf(sched)))

stagesForDay(sched, day) ==
    sort(unique(stageOf(SelectSeq(sched, LAMBDA p : p.day = day))))

performancesAtTime_EndNextDay(sched, day, time) ==
    SelectSeq(sched, LAMBDA p :
        LET startMinutes == timeToMinutes(p.start)
            endMinutes == timeToMinutes(p.end)
            endAfterStart == IF JsLt(startMinutes, endMinutes)
                             THEN endMinutes
                             ELSE JsAdd(endMinutes, Num(24 * 60))
        IN  /\ p.day = day
            /\ JsGe(Num(time), startMinutes)
            /\ JsLt(Num(time), endAfterStart))

performancesAtTime_ClosedEnd(sched, day, time) ==
    SelectSeq(sched, LAMBDA p :
        /\ p.day = day
        /\ JsGe(Num(time), timeToMinutes(p.start))
        /\ ~JsLt(timeToMinutes(p.end), Num(time))
        /\ ~timeToMinutes(p.end).nan)

\* const performancesAtTime
performancesAtTime(sched, day, time) ==
    SelectSeq(sched, LAMBDA p :
        /\ p.day = day
        /\ JsGe(Num(time), timeToMinutes(p.start))
        /\ JsLt(Num(time), timeToMinutes(p.end)))

\* What Array.prototype.find returns when no element matches: undefined,
\* as a record so that it can be compared with a performance.
notFound == [found |-> FALSE]

find_Last(array, stage) ==
    LET matching == SelectSeq(array, LAMBDA p : p.stage = stage)
    IN  IF matching = <<>> THEN notFound ELSE matching[Len(matching)]

\* array.find(p => p.stage === stage)
find(array, stage) ==
    LET matching == SelectSeq(array, LAMBDA p : p.stage = stage)
    IN  IF matching = <<>> THEN notFound ELSE Head(matching)

\* if (hideEmptyStages) { ... }
hideEmptyFilter(filteredStages, atTime) ==
    LET stagesWithPerformances == stageOf(atTime)
    IN  SelectSeq(filteredStages,
                  LAMBDA stage : includes(stagesWithPerformances, stage))

hideNoStreamFilter_NoCutoff(filteredStages, day, time) ==
    SelectSeq(SelectSeq(filteredStages, LAMBDA stage : stage # "Yuma"),
              LAMBDA stage : getLivestreamLink(stage, day) # undefined)

hideNoStreamFilter_YumaOnly(filteredStages, day, time) ==
    LET noYuma == SelectSeq(filteredStages, LAMBDA stage : stage # "Yuma")
    IN  IF time < 960 THEN <<>> ELSE noYuma

\* if (hideNoStreamStages) { ... }
hideNoStreamFilter(filteredStages, day, time) ==
    LET noYuma == SelectSeq(filteredStages, LAMBDA stage : stage # "Yuma")
    IN  IF time < 960 THEN <<>>
        ELSE SelectSeq(noYuma,
                       LAMBDA stage : getLivestreamLink(stage, day) # undefined)

filteredStages_AllStages(forDay, atTime, day, time, hideEmpty, hideNoStream) ==
    IF hideNoStream THEN hideNoStreamFilter(forDay, day, time) ELSE forDay

filteredStages_ElseIf(forDay, atTime, day, time, hideEmpty, hideNoStream) ==
    IF hideEmpty THEN hideEmptyFilter(forDay, atTime)
    ELSE IF hideNoStream THEN hideNoStreamFilter(forDay, day, time)
    ELSE forDay

\* let filteredStages = stagesForDay; ...; stages = filteredStages.
\* forDay and atTime are the block's stagesForDay and performancesAtTime.
filteredStages(forDay, atTime, day, time, hideEmpty, hideNoStream) ==
    LET afterEmpty ==
            IF hideEmpty THEN hideEmptyFilter(forDay, atTime) ELSE forDay
    IN  IF hideNoStream THEN hideNoStreamFilter(afterEmpty, day, time)
        ELSE afterEmpty

-----------------------------------------------------------------------------
(* The reactive block that sorts chronologically *)

dayOrder == [Friday |-> 0, Saturday |-> 1, Sunday |-> 2]

compare_StartOnly(a, b) ==
    JsSub(timeToMinutes(a.start), timeToMinutes(b.start))

\* The comparator (a, b) => ...
compare(a, b) ==
    IF dayOrder[a.day] # dayOrder[b.day]
    THEN Num(dayOrder[a.day] - dayOrder[b.day])
    ELSE JsSub(timeToMinutes(a.start), timeToMinutes(b.start))

InsertCompared_BeforeEqual(sorted, x) ==
    LET after == {i \in 1..Len(sorted) :
                      JsGe(compare(sorted[i], x), Num(0))}
        k == IF after = {} THEN Len(sorted) + 1
             ELSE CHOOSE i \in after : \A j \in after : i <= j
    IN  SubSeq(sorted, 1, k - 1) \o <<x>> \o SubSeq(sorted, k, Len(sorted))

\* One step of the stable sort Array.prototype.sort is: x goes in front of
\* the first element the comparator puts after it (a result > 0); a NaN
\* result counts as 0.
InsertCompared(sorted, x) ==
    LET after == {i \in 1..Len(sorted) :
                      JsLt(Num(0), compare(sorted[i], x))}
        k == IF after = {} THEN Len(sorted) + 1
             ELSE CHOOSE i \in after : \A j \in after : i <= j
    IN  SubSeq(sorted, 1, k - 1) \o <<x>> \o SubSeq(sorted, k, Len(sorted))

\* [...schedule].sort(compare)
RECURSIVE sortChronologically(_)
sortChronologically(seq) ==
    IF seq = <<>> THEN <<>>
    ELSE InsertCompared(sortChronologically(SubSeq(seq, 1, Len(seq) - 1)),
                        seq[Len(seq)])

chronologicalSort_InPlace(sched) ==
    [schedule |-> sortChronologically(sched),
     chronologicalPerformances |-> sortChronologically(sched)]

\* $: chronologicalPerformances = [...schedule].sort(compare): what the
\* statement leaves in schedule and in chronologicalPerformances.  The
\* spread copies the array and the copy is the one sorted.
chronologicalSort(sched) ==
    [schedule |-> sched,
     chronologicalPerformances |-> sortChronologically(sched)]

-----------------------------------------------------------------------------
(* The reactive statement that filters by the search term *)

\* How the artists of the model are spelled.
Spelling ==
    "A" :> <<"A">> @@ "B" :> <<"B">> @@ "C" :> <<"C">> @@ "D" :> <<"D">> @@
    "dj snake" :> <<"d", "j", " ", "s", "n", "a", "k", "e">>

UpperCase ==
    <<"A", "B", "C", "D", "E", "F", "G", "H", "I", "J", "K", "L", "M", "N",
      "O", "P", "Q", "R", "S", "T", "U", "V", "W", "X", "Y", "Z">>

LowerCase ==
    <<"a", "b", "c", "d", "e", "f", "g", "h", "i", "j", "k", "l", "m", "n",
      "o", "p", "q", "r", "s", "t", "u", "v", "w", "x", "y", "z">>

\* String.prototype.toLowerCase, for the letters A..Z.
toLowerCase(s) ==
    [i \in 1..Len(s) |->
        IF \E k \in 1..Len(UpperCase) : UpperCase[k] = s[i]
        THEN LowerCase[CHOOSE k \in 1..Len(UpperCase) : UpperCase[k] = s[i]]
        ELSE s[i]]

WhiteSpace == {" ", "\t"}

\* String.prototype.trim
RECURSIVE trim(_)
trim(s) ==
    IF s = <<>> THEN s
    ELSE IF s[1] \in WhiteSpace THEN trim(Tail(s))
    ELSE IF s[Len(s)] \in WhiteSpace THEN trim(SubSeq(s, 1, Len(s) - 1))
    ELSE s

\* String.prototype.includes
stringIncludes(s, part) ==
    \E i \in 0..(Len(s) - Len(part)) : SubSeq(s, i + 1, i + Len(part)) = part

matches_CaseSensitive(performance, term) ==
    \/ trim(term) = <<>>
    \/ stringIncludes(Spelling[performance.artist], term)

matches_EmptyOnly(performance, term) ==
    \/ term = <<>>
    \/ stringIncludes(toLowerCase(Spelling[performance.artist]),
                      toLowerCase(term))

\* The callback of chronologicalPerformances.filter(performance => ...)
matches(performance, term) ==
    \/ trim(term) = <<>>
    \/ stringIncludes(toLowerCase(Spelling[performance.artist]),
                      toLowerCase(term))

\* $: filteredChronologicalPerformances = chronologicalPerformances.filter(...)
searchFilter(list, term) == SelectSeq(list, LAMBDA p : matches(p, term))

-----------------------------------------------------------------------------
(* Dates and their display *)

festivalTimeZone == "America/Los_Angeles"

\* The zones of availableTimezones and one the browser may report; for each
\* the minutes it is east of UTC from 11 to 14 April 2025.
utcOffset ==
    "America/Los_Angeles" :> -420 @@ "America/Denver" :> -360 @@
    "America/Chicago" :> -300 @@ "America/New_York" :> -240 @@
    "UTC" :> 0 @@ "Asia/Kolkata" :> 330

\* A Date: the minutes since 2025-04-11T00:00Z, or Invalid Date.
InvalidDate == [invalid |-> TRUE, time |-> 0]

Date(t) == [invalid |-> FALSE, time |-> t]

\* The calendar dates of the date strings, in days after 2025-04-11.
CalendarDay ==
    "2025-04-11" :> 0 @@ "2025-04-12" :> 1 @@ "2025-04-13" :> 2 @@
    "2025-04-14" :> 3

\* Math.floor(x / n)
JsFloorDiv(x, n) == IF x.nan THEN NaN ELSE Num(x.val \div n)

\* x % n: the remainder has the sign of x.
JsRem(x, n) ==
    IF x.nan THEN NaN
    ELSE IF x.val >= 0 THEN Num(x.val % n)
    ELSE Num(0 - ((0 - x.val) % n))

RECURSIVE Decimal(_)
Decimal(n) ==
    IF n < 10 THEN <<Digits[n + 1]>>
    ELSE Decimal(n \div 10) \o <<Digits[(n % 10) + 1]>>

\* String(x)
String(x) ==
    IF x.nan THEN <<"N", "a", "N">>
    ELSE IF x.val < 0 THEN <<"-">> \o Decimal(0 - x.val)
    ELSE Decimal(x.val)

\* String.prototype.padStart
RECURSIVE padStart(_, _, _)
padStart(s, targetLength, padString) ==
    IF Len(s) >= targetLength THEN s
    ELSE padStart(<<padString>> \o s, targetLength, padString)

\* `${date}T${String(hours).padStart(2, '0')}:${String(minutes).padStart(2, '0')}:00`,
\* kept as the part before the T and the part after it.
DateString(date, hours, minutes) ==
    [date |-> date,
     time |-> padStart(String(hours), 2, "0") \o <<":">> \o
              padStart(String(minutes), 2, "0") \o <<":", "0", "0">>]

null == -1

\* The library's reading of HH:mm:ss: the minute of the day, or null.
parseTime(time) ==
    IF /\ Len(time) = 8
       /\ \A i \in {1, 2, 4, 5, 7, 8} : IsDigit(time[i])
       /\ time[3] = ":" /\ time[6] = ":"
       /\ DecimalValue(SubSeq(time, 1, 2)) < 25
       /\ DecimalValue(SubSeq(time, 4, 5)) < 60
       /\ DecimalValue(SubSeq(time, 7, 8)) < 60
    THEN 60 * DecimalValue(SubSeq(time, 1, 2)) +
         DecimalValue(SubSeq(time, 4, 5))
    ELSE null

\* fromZonedTime(dateStr, timeZone): the instant at which the zone's clocks
\* show dateStr.  A string that is no date gives Invalid Date, or an
\* exception where the library rejects it.
fromZonedTime(dateStr, timeZone, rejects) ==
    LET minutes == parseTime(dateStr.time)
    IN  IF minutes = null
        THEN [threw |-> rejects, date |-> InvalidDate]
        ELSE [threw |-> FALSE,
              date |-> Date(1440 * CalendarDay[dateStr.date] + minutes -
                            utcOffset[timeZone])]

createFestivalDate_SameDate(minutesFromMidnight, day, rejects) ==
    LET hours == JsRem(JsFloorDiv(minutesFromMidnight, 60), 24)
        minutes == JsRem(minutesFromMidnight, 60)
        baseDate == IF day = "Friday" THEN "2025-04-11"
                    ELSE IF day = "Saturday" THEN "2025-04-12"
                    ELSE "2025-04-13"
    IN  fromZonedTime(DateString(baseDate, hours, minutes),
                      festivalTimeZone, rejects)

\* createFestivalDate(minutesFromMidnight), with selectedDay as day.
createFestivalDate(minutesFromMidnight, day, rejects) ==
    LET hours == JsRem(JsFloorDiv(minutesFromMidnight, 60), 24)
        minutes == JsRem(minutesFromMidnight, 60)
        baseDate == IF day = "Friday" THEN "2025-04-11"
                    ELSE IF day = "Saturday" THEN "2025-04-12"
                    ELSE "2025-04-13"
        dateStrDate == IF JsGe(minutesFromMidnight, Num(1440))
                       THEN IF day = "Friday" THEN "2025-04-12"
                            ELSE IF day = "Saturday" THEN "2025-04-13"
                            ELSE "2025-04-14"
                       ELSE baseDate
        dateStr == DateString(dateStrDate, hours, minutes)
        fallbackDateStr == DateString("2025-04-11", hours, minutes)
        made == fromZonedTime(dateStr, festivalTimeZone, rejects)
    IN  IF made.threw
        THEN fromZonedTime(fallbackDateStr, festivalTimeZone, rejects)
        ELSE made

\* formatInTimeZone(date, timeZone, 'h:mm a'); Invalid Date is a RangeError.
formatInTimeZone(date, timeZone) ==
    IF date.invalid THEN [threw |-> TRUE, text |-> <<>>]
    ELSE LET local == date.time + utcOffset[timeZone]
             hour == (local \div 60) % 24
             minute == local % 60
             h == IF hour % 12 = 0 THEN 12 ELSE hour % 12
             a == IF hour < 12 THEN <<"A", "M">> ELSE <<"P", "M">>
         IN  [threw |-> FALSE,
              text |-> Decimal(h) \o <<":">> \o
                       padStart(Decimal(minute), 2, "0") \o <<" ">> \o a]

displayZone_Utc(timezone) == IF timezone = "" THEN "UTC" ELSE timezone

\* selectedTimezone || festivalTimeZone
displayZone(timezone) ==
    IF timezone = "" THEN festivalTimeZone ELSE timezone

\* formatSliderTime(minutes), with selectedDay and selectedTimezone as day
\* and timezone.
formatSliderTime(minutes, day, timezone, rejects) ==
    LET festivalDate == createFestivalDate(minutes, day, rejects)
    IN  IF festivalDate.threw THEN [threw |-> TRUE, text |-> <<>>]
        ELSE formatInTimeZone(festivalDate.date, displayZone(timezone))

\* formatPerformanceTime(timeStr), with selectedDay and selectedTimezone as
\* day and timezone.
formatPerformanceTime(timeStr, day, timezone, rejects) ==
    IF timeStr = <<>> THEN [threw |-> FALSE, text |-> <<"-">>]
    ELSE LET minutes == timeToMinutes(timeStr)
             festivalDate == createFestivalDate(minutes, day, rejects)
         IN  IF festivalDate.threw THEN [threw |-> TRUE, text |-> <<>>]
             ELSE formatInTimeZone(festivalDate.date, displayZone(timezone))

-----------------------------------------------------------------------------
(* The clock and the initial view *)

\* The clock is read in minutes since a Sunday 00:00 UTC of April; a week
\* of readings.
ClockReadings == 0..(7 * 1440 - 1)

\* toZonedTime(now, timeZone): the day of the week (0 is Sunday), the hour
\* and the minute the zone's clocks show.
toZonedTime(t, timeZone) ==
    LET local == (t + utcOffset[timeZone]) % (7 * 1440)
    IN  [day |-> local \div 1440,
         hours |-> (local % 1440) \div 60,
         minutes |-> local % 60]

\* Math.round(n / d), for n >= 0
MathRoundDiv(n, d) == (2 * n + d) \div (2 * d)

setInitialTimeAndDay_RoundDown(t) ==
    LET nowInFestivalTime == toZonedTime(t, festivalTimeZone)
        currentHourFestival == nowInFestivalTime.hours
        currentMinuteFestival == nowInFestivalTime.minutes
        currentTimeMinutesFestival ==
            IF currentHourFestival < 5
            THEN currentHourFestival * 60 + currentMinuteFestival + 24 * 60
            ELSE currentHourFestival * 60 + currentMinuteFestival
        dayOfWeek == nowInFestivalTime.day
        hour == nowInFestivalTime.hours
    IN  [selectedTime |->
             IF /\ currentTimeMinutesFestival >= 12 * 60
                /\ currentTimeMinutesFestival <= (24 + 2) * 60
             THEN (currentTimeMinutesFestival \div 5) * 5
             ELSE 15 * 60,
         selectedDay |->
             IF (dayOfWeek = 6 /\ hour >= 3) \/ (dayOfWeek = 0 /\ hour < 3)
             THEN "Saturday"
             ELSE IF \/ (dayOfWeek = 0 /\ hour >= 3)
                     \/ (dayOfWeek = 1 /\ hour < 3)
             THEN "Sunday"
             ELSE "Friday"]

setInitialTimeAndDay_BoundaryAtOne(t) ==
    LET nowInFestivalTime == toZonedTime(t, festivalTimeZone)
        currentHourFestival == nowInFestivalTime.hours
        currentMinuteFestival == nowInFestivalTime.minutes
        currentTimeMinutesFestival ==
            IF currentHourFestival < 5
            THEN currentHourFestival * 60 + currentMinuteFestival + 24 * 60
            ELSE currentHourFestival * 60 + currentMinuteFestival
        dayOfWeek == nowInFestivalTime.day
        hour == nowInFestivalTime.hours
    IN  [selectedTime |->
             IF /\ currentTimeMinutesFestival >= 12 * 60
                /\ currentTimeMinutesFestival <= (24 + 2) * 60
             THEN MathRoundDiv(currentTimeMinutesFestival, 5) * 5
             ELSE 15 * 60,
         selectedDay |->
             IF (dayOfWeek = 6 /\ hour >= 1) \/ (dayOfWeek = 0 /\ hour < 1)
             THEN "Saturday"
             ELSE IF \/ (dayOfWeek = 0 /\ hour >= 1)
                     \/ (dayOfWeek = 1 /\ hour < 1)
             THEN "Sunday"
             ELSE "Friday"]

setInitialTimeAndDay_AtMidnight(t) ==
    LET nowInFestivalTime == toZonedTime(t, festivalTimeZone)
        currentHourFestival == nowInFestivalTime.hours
        currentMinuteFestival == nowInFestivalTime.minutes
        currentTimeMinutesFestival ==
            IF currentHourFestival < 5
            THEN currentHourFestival * 60 + currentMinuteFestival + 24 * 60
            ELSE currentHourFestival * 60 + currentMinuteFestival
        dayOfWeek == nowInFestivalTime.day
    IN  [selectedTime |->
             IF /\ currentTimeMinutesFestival >= 12 * 60
                /\ currentTimeMinutesFestival <= (24 + 2) * 60
             THEN MathRoundDiv(currentTimeMinutesFestival, 5) * 5
             ELSE 15 * 60,
         selectedDay |->
             IF dayOfWeek = 6 THEN "Saturday"
             ELSE IF dayOfWeek = 0 THEN "Sunday"
             ELSE "Friday"]

setInitialTimeAndDay_Unrounded(t) ==
    LET nowInFestivalTime == toZonedTime(t, festivalTimeZone)
        currentHourFestival == nowInFestivalTime.hours
        currentMinuteFestival == nowInFestivalTime.minutes
        currentTimeMinutesFestival ==
            IF currentHourFestival < 5
            THEN currentHourFestival * 60 + currentMinuteFestival + 24 * 60
            ELSE currentHourFestival * 60 + currentMinuteFestival
        dayOfWeek == nowInFestivalTime.day
        hour == nowInFestivalTime.hours
    IN  [selectedTime |->
             IF /\ currentTimeMinutesFestival >= 12 * 60
                /\ currentTimeMinutesFestival <= (24 + 2) * 60
             THEN currentTimeMinutesFestival
             ELSE 15 * 60,
         selectedDay |->
             IF (dayOfWeek = 6 /\ hour >= 3) \/ (dayOfWeek = 0 /\ hour < 3)
             THEN "Saturday"
             ELSE IF \/ (dayOfWeek = 0 /\ hour >= 3)
                     \/ (dayOfWeek = 1 /\ hour < 3)
             THEN "Sunday"
             ELSE "Friday"]

\* setInitialTimeAndDay(), with new Date() as t: the selectedTime and the
\* selectedDay it assigns.
setInitialTimeAndDay(t) ==
    LET nowInFestivalTime == toZonedTime(t, festivalTimeZone)
        currentHourFestival == nowInFestivalTime.hours
        currentMinuteFestival == nowInFestivalTime.minutes
        currentTimeMinutesFestival ==
            IF currentHourFestival < 5
            THEN currentHourFestival * 60 + currentMinuteFestival + 24 * 60
            ELSE currentHourFestival * 60 + currentMinuteFestival
        dayOfWeek == nowInFestivalTime.day
        hour == nowInFestivalTime.hours
    IN  [selectedTime |->
             IF /\ currentTimeMinutesFestival >= 12 * 60
                /\ currentTimeMinutesFestival <= (24 + 2) * 60
             THEN MathRoundDiv(currentTimeMinutesFestival, 5) * 5
             ELSE 15 * 60,
         selectedDay |->
             IF (dayOfWeek = 6 /\ hour >= 3) \/ (dayOfWeek = 0 /\ hour < 3)
             THEN "Saturday"
             ELSE IF \/ (dayOfWeek = 0 /\ hour >= 3)
                     \/ (dayOfWeek = 1 /\ hour < 3)
             THEN "Sunday"
             ELSE "Friday"]

resetTimeToDefault_Declared(t) ==
    [selectedTime |-> 15 * 60, selectedDay |-> "Friday"]

\* resetTimeToDefault(), with new Date() as t.
resetTimeToDefault(t) == setInitialTimeAndDay(t)

\* userTimezone.split('/').pop()?.replace('_', ' ') || userTimezone
LocalName ==
    "America/Los_Angeles" :> "Los Angeles" @@ "America/Denver" :> "Denver" @@
    "America/Chicago" :> "Chicago" @@ "America/New_York" :> "New York" @@
    "UTC" :> "UTC" @@ "Asia/Kolkata" :> "Kolkata"

-----------------------------------------------------------------------------
(* The theme store *)

\* import { browser } from '$app/environment': the page runs in a browser.
browser == TRUE

\* localStorage.getItem of a key that has no item
noItem == "(null)"

\* What localStorage may hold under 'theme' when the page is opened.
StoredThemes == {noItem, "", "light", "dark", "blue"}

initialTheme_Stored(stored) == stored

\* browser ? localStorage.getItem('theme') || 'light' : 'light'
initialTheme(stored) ==
    IF browser
    THEN IF stored = noItem \/ stored = "" THEN "light" ELSE stored
    ELSE "light"

\* current => current === 'light' ? 'dark' : 'light'
nextTheme(current) == IF current = "light" THEN "dark" ELSE "light"

\* theme.subscribe(value => ...): installed in a browser only
subscriber(value) ==
    IF browser
    THEN /\ storedTheme' = value
         /\ dataTheme' = value
    ELSE UNCHANGED <<storedTheme, dataTheme>>

-----------------------------------------------------------------------------
(* The page *)

\* The declarations the schedule tab's controls do not touch, and the list
\* the search statement derives from them.
DeclaredInit ==
    /\ searchTerm = <<>>
    /\ filteredChronologicalPerformances =
           searchFilter(chronologicalPerformances, searchTerm)
    /\ selectedTimezone = ""
    /\ localOption = [label |-> <<"Local">>, value |-> ""]
    /\ now = 0
    /\ readBy = "nobody"
    /\ userTimezone = undefined
    /\ activeTab = "schedule"

\* The page as a first visit finds it: nothing stored, stores.ts evaluated.
PageInit ==
    /\ DeclaredInit
    /\ theme = initialTheme(noItem)
    /\ storedTheme = theme
    /\ dataTheme = theme

NoCall ==
    [fn |-> "none", timeStr |-> <<>>, stageName |-> "", day |-> "",
     minutes |-> 0, rejects |-> FALSE]

NoRet ==
    [done |-> FALSE, num |-> NaN, link |-> undefined, date |-> InvalidDate,
     text |-> <<>>, threw |-> FALSE, list |-> <<>>]

Filter_KeepPerformances ==
    /\ filteredPerformances' = filteredPerformances
    /\ stages' = filteredStages(stagesForDay(schedule', selectedDay'),
                                filteredPerformances', selectedDay',
                                selectedTime', hideEmptyStages',
                                hideNoStreamStages')

\* The first reactive block, run with the values the event leaves behind.
Filter ==
    /\ filteredPerformances' =
           performancesAtTime(schedule', selectedDay', selectedTime')
    /\ stages' = filteredStages(stagesForDay(schedule', selectedDay'),
                                filteredPerformances', selectedDay',
                                selectedTime', hideEmptyStages',
                                hideNoStreamStages')

\* The component's script, run once: the declarations, then the reactive
\* blocks.
Init ==
    /\ scheduleData \in Datasets
    /\ schedule = chronologicalSort(scheduleData).schedule
    /\ selectedDay = "Friday"
    /\ selectedTime = 15 * 60
    /\ hideEmptyStages = TRUE
    /\ hideNoStreamStages = FALSE
    /\ filteredPerformances =
           performancesAtTime(schedule, selectedDay, selectedTime)
    /\ stages = filteredStages(stagesForDay(schedule, selectedDay),
                               filteredPerformances, selectedDay,
                               selectedTime, hideEmptyStages,
                               hideNoStreamStages)
    /\ chronologicalPerformances =
           chronologicalSort(scheduleData).chronologicalPerformances
    /\ PageInit
    /\ call = NoCall
    /\ ret = NoRet

\* <select bind:value={selectedDay}>
SelectDay ==
    \E day \in Days :
        /\ activeTab = "schedule"
        /\ day # selectedDay
        /\ selectedDay' = day
        /\ UNCHANGED <<schedule, selectedTime, hideEmptyStages,
                       hideNoStreamStages, chronologicalPerformances,
                       pageVars, call, ret>>
        /\ Filter

\* <input type="range" bind:value={selectedTime} min max step>
SlideTime ==
    \E time \in SliderValues :
        /\ activeTab = "schedule"
        /\ time # selectedTime
        /\ time - selectedTime <= sliderStep * MaxSlide
        /\ selectedTime - time <= sliderStep * MaxSlide
        /\ selectedTime' = time
        /\ UNCHANGED <<schedule, selectedDay, hideEmptyStages,
                       hideNoStreamStages, chronologicalPerformances,
                       pageVars, call, ret>>
        /\ Filter

\* <input type="checkbox" bind:checked={hideEmptyStages}>
ToggleHideEmpty ==
    /\ activeTab = "schedule"
    /\ hideEmptyStages' = ~hideEmptyStages
    /\ UNCHANGED <<schedule, selectedDay, selectedTime, hideNoStreamStages,
                   chronologicalPerformances, pageVars, call,
                   ret>>
    /\ Filter

\* <input type="checkbox" bind:checked={hideNoStreamStages}>
ToggleHideNoStream ==
    /\ activeTab = "schedule"
    /\ hideNoStreamStages' = ~hideNoStreamStages
    /\ UNCHANGED <<schedule, selectedDay, selectedTime, hideEmptyStages,
                   chronologicalPerformances, pageVars, call,
                   ret>>
    /\ Filter

Next ==
    \/ SelectDay
    \/ SlideTime
    \/ ToggleHideEmpty
    \/ ToggleHideNoStream

Spec == Init /\ [][Next]_vars

-----------------------------------------------------------------------------
(* The tabs, the timezone select and the theme button *)

\* on:click={() => activeTab = 'schedule'} and on:click={() => activeTab = 'list'}
SelectTab ==
    \E tab \in {"schedule", "list"} :
        /\ tab # activeTab
        /\ activeTab' = tab
        /\ UNCHANGED <<schedule, selectedDay, selectedTime, hideEmptyStages,
                       hideNoStreamStages, stages, filteredPerformances,
                       chronologicalPerformances, searchTerm,
                       filteredChronologicalPerformances, selectedTimezone,
                       localOption, now, readBy, userTimezone, theme,
                       storedTheme, dataTheme, scheduleData, call, ret>>

SelectTimezone_FirstDay(zones) ==
    \E timezone \in zones \cup {localOption.value} :
        /\ activeTab = "schedule"
        /\ timezone # selectedTimezone
        /\ selectedTimezone' = timezone
        /\ selectedDay' = "Friday"
        /\ UNCHANGED <<schedule, selectedTime, hideEmptyStages,
                       hideNoStreamStages, chronologicalPerformances,
                       searchTerm, filteredChronologicalPerformances,
                       localOption, now, readBy, userTimezone, shellVars,
                       call, ret>>
        /\ Filter

\* <select bind:value={selectedTimezone}>, with the Local option and the
\* listed zones among zones to choose from
SelectTimezone(zones) ==
    \E timezone \in zones \cup {localOption.value} :
        /\ activeTab = "schedule"
        /\ timezone # selectedTimezone
        /\ selectedTimezone' = timezone
        /\ UNCHANGED <<schedule, selectedDay, selectedTime, hideEmptyStages,
                       hideNoStreamStages, stages, filteredPerformances,
                       chronologicalPerformances, searchTerm,
                       filteredChronologicalPerformances, localOption, now,
                       readBy, userTimezone, shellVars, call, ret>>

\* stores.ts, evaluated when the page imports it: the store is created and
\* the subscriber runs with its value.
loadStores ==
    /\ theme = undefined
    /\ theme' = initialTheme(storedTheme)
    /\ subscriber(theme')
    /\ UNCHANGED <<schedule, selectedDay, selectedTime, hideEmptyStages,
                   hideNoStreamStages, stages, filteredPerformances,
                   chronologicalPerformances, searchTerm,
                   filteredChronologicalPerformances, selectedTimezone,
                   localOption, now, readBy, userTimezone, activeTab,
                   scheduleData, call, ret>>

\* <button class="theme-toggle" on:click={toggleTheme}>
toggleTheme ==
    /\ theme # undefined
    /\ theme' = nextTheme(theme)
    /\ subscriber(theme')
    /\ UNCHANGED <<schedule, selectedDay, selectedTime, hideEmptyStages,
                   hideNoStreamStages, stages, filteredPerformances,
                   chronologicalPerformances, searchTerm,
                   filteredChronologicalPerformances, selectedTimezone,
                   localOption, now, readBy, userTimezone, activeTab,
                   scheduleData, call, ret>>

-----------------------------------------------------------------------------
(* The theme, from the moment the page is opened *)

\* The page before stores.ts is evaluated: localStorage holds what an earlier
\* visit or anything else of the origin left under 'theme', and the document
\* has no data-theme attribute.
ThemeInit ==
    /\ scheduleData = <<Performance("C", "Sahara", "Saturday", HHMM(15, 0),
                                    HHMM(16, 30))>>
    /\ schedule = chronologicalSort(scheduleData).schedule
    /\ selectedDay = "Friday"
    /\ selectedTime = 15 * 60
    /\ hideEmptyStages = TRUE
    /\ hideNoStreamStages = FALSE
    /\ filteredPerformances =
           performancesAtTime(schedule, selectedDay, selectedTime)
    /\ stages = filteredStages(stagesForDay(schedule, selectedDay),
                               filteredPerformances, selectedDay,
                               selectedTime, hideEmptyStages,
                               hideNoStreamStages)
    /\ chronologicalPerformances =
           chronologicalSort(scheduleData).chronologicalPerformances
    /\ DeclaredInit
    /\ theme = undefined
    /\ storedTheme \in StoredThemes
    /\ dataTheme = noItem
    /\ call = NoCall
    /\ ret = NoRet

\* The page's controls exist once its script, which imports the store, ran.
ThemeNext ==
    \/ loadStores
    \/ toggleTheme
    \/ (theme # undefined /\ SelectTab)
    \/ (theme # undefined /\ SelectDay)
    \/ (theme # undefined /\ SlideTime)
    \/ (theme # undefined /\ ToggleHideEmpty)
    \/ (theme # undefined /\ ToggleHideNoStream)

SpecTheme == ThemeInit /\ [][ThemeNext]_vars

-----------------------------------------------------------------------------
(* The "All Performances" tab *)

\* What is typed into the search box.
SearchTerms ==
    { <<>>,
      <<" ">>,
      <<" ", "\t", " ">>,
      <<"D", "J">>,
      <<"a">>,
      <<"S", "N", "A", "K", "E">>,
      <<"j", " ", "s">>,
      <<" ", "s">>,
      <<"b", " ">>,
      <<"x">> }

\* <input type="text" bind:value={searchTerm}>
TypeSearch(terms) ==
    \E term \in terms :
        /\ activeTab = "list"
        /\ term # searchTerm
        /\ searchTerm' = term
        /\ filteredChronologicalPerformances' =
               searchFilter(chronologicalPerformances, term)
        /\ UNCHANGED <<schedule, selectedDay, selectedTime, hideEmptyStages,
                       hideNoStreamStages, stages, filteredPerformances,
                       chronologicalPerformances, selectedTimezone,
                       localOption, now, readBy, userTimezone, shellVars,
                       call, ret>>

\* The clear button, shown when searchTerm.trim() is not empty.
ClearSearch ==
    /\ activeTab = "list"
    /\ trim(searchTerm) # <<>>
    /\ searchTerm' = <<>>
    /\ filteredChronologicalPerformances' =
           searchFilter(chronologicalPerformances, <<>>)
    /\ UNCHANGED <<schedule, selectedDay, selectedTime, hideEmptyStages,
                   hideNoStreamStages, stages, filteredPerformances,
                   chronologicalPerformances, selectedTimezone,
                   localOption, now, readBy, userTimezone, shellVars,
                   call, ret>>

ListNext ==
    \/ SelectTab
    \/ TypeSearch(SearchTerms)
    \/ ClearSearch

SpecList == Init /\ [][ListNext]_vars

-----------------------------------------------------------------------------
(* Mounting the page *)

\* What Intl.DateTimeFormat().resolvedOptions().timeZone gives: a zone,
\* undefined where the browser knows none, or an exception.
threw == "threw"

Detections == {"Asia/Kolkata", "America/Los_Angeles", undefined, threw}

onMount_KeepsZone(readings) ==
    /\ readBy = "nobody"
    /\ \E t \in readings, detected \in Detections :
        /\ userTimezone' = detected
        /\ IF detected \notin {undefined, threw}
           THEN /\ selectedTimezone' = detected
                /\ localOption' =
                       [label |-> <<"Local", LocalName[detected]>>,
                        value |-> detected]
           ELSE /\ selectedTimezone' = selectedTimezone
                /\ localOption' = [label |-> <<"Local", "Unknown">>,
                                   value |-> festivalTimeZone]
        /\ now' = t
        /\ selectedTime' = setInitialTimeAndDay(t).selectedTime
        /\ selectedDay' = setInitialTimeAndDay(t).selectedDay
    /\ readBy' = "onMount"
    /\ UNCHANGED <<schedule, hideEmptyStages, hideNoStreamStages,
                   chronologicalPerformances, searchTerm,
                   filteredChronologicalPerformances, shellVars, call, ret>>
    /\ Filter

\* onMount(() => ...), with the clock at one of the readings.  The try block
\* runs to its end with a zone; with undefined its userTimezone.split throws
\* after selectedTimezone was assigned, and the catch block assigns it again.
onMount(readings) ==
    /\ readBy = "nobody"
    /\ \E t \in readings, detected \in Detections :
        /\ userTimezone' = detected
        /\ IF detected \notin {undefined, threw}
           THEN /\ selectedTimezone' = detected
                /\ localOption' =
                       [label |-> <<"Local", LocalName[detected]>>,
                        value |-> detected]
           ELSE /\ selectedTimezone' = festivalTimeZone
                /\ localOption' = [label |-> <<"Local", "Unknown">>,
                                   value |-> festivalTimeZone]
        /\ now' = t
        /\ selectedTime' = setInitialTimeAndDay(t).selectedTime
        /\ selectedDay' = setInitialTimeAndDay(t).selectedDay
    /\ readBy' = "onMount"
    /\ UNCHANGED <<schedule, hideEmptyStages, hideNoStreamStages,
                   chronologicalPerformances, searchTerm,
                   filteredChronologicalPerformances, shellVars, call, ret>>
    /\ Filter

\* The page with a dataset of one performance, before it is mounted.
MountInit ==
    /\ Init
    /\ Len(schedule) = 1

MountNext == onMount(ClockReadings)

SpecMount == MountInit /\ [][MountNext]_vars

-----------------------------------------------------------------------------
(* The Reset Time button *)

\* Readings of the clock, in Los Angeles: Friday 15:02, Saturday 02:59,
\* Saturday 23:58, Sunday 01:30, Sunday 12:00, Monday 02:00, Wednesday 10:00.
ResetReadings ==
    { 5 * 1440 + 15 * 60 + 2 + 420,
      6 * 1440 + 2 * 60 + 59 + 420,
      (6 * 1440 + 23 * 60 + 58 + 420) % (7 * 1440),
      0 * 1440 + 1 * 60 + 30 + 420,
      0 * 1440 + 12 * 60 + 0 + 420,
      1 * 1440 + 2 * 60 + 0 + 420,
      3 * 1440 + 10 * 60 + 0 + 420 }

\* <button class="reset-button" on:click={resetTimeToDefault}>, with the
\* clock at one of the readings
ResetTime(readings) ==
    /\ activeTab = "schedule"
    /\ readBy # "nobody"
    /\ \E t \in readings :
        /\ now' = t
        /\ selectedTime' = resetTimeToDefault(t).selectedTime
        /\ selectedDay' = resetTimeToDefault(t).selectedDay
    /\ readBy' = "resetTimeToDefault"
    /\ UNCHANGED <<schedule, hideEmptyStages, hideNoStreamStages,
                   chronologicalPerformances, searchTerm,
                   filteredChronologicalPerformances, selectedTimezone,
                   localOption, userTimezone, shellVars, call, ret>>
    /\ Filter

ResetNext ==
    \/ onMount(ResetReadings)
    \/ ResetTime(ResetReadings)
    \/ SelectDay
    \/ ToggleHideEmpty
    \/ ToggleHideNoStream
    \/ SelectTab
    \/ TypeSearch(SearchTerms)
    \/ ClearSearch

SpecReset == MountInit /\ [][ResetNext]_vars

-----------------------------------------------------------------------------
(* A whole visit: startup and every control of both tabs *)

\* A dataset that is not in chronological order: a Saturday set on a stage
\* with a fixed stream, then a Friday set on the stage whose stream changes
\* by day.
VisitDataset ==
    << Performance("C", "Sahara", "Saturday", HHMM(15, 0), HHMM(16, 30)),
       Performance("B", "Quasar", "Friday", HHMM(22, 0), HHMM(0, 10)) >>

\* Readings of the clock, in Los Angeles: Saturday 23:58, which rounds up to
\* the slider's 24:00, and Wednesday 10:00, before the slider's range.
VisitReadings ==
    { (6 * 1440 + 23 * 60 + 58 + 420) % (7 * 1440),
      3 * 1440 + 10 * 60 + 0 + 420 }

\* A listed zone to choose besides the Local option.
VisitZones == {"UTC"}

\* A search that leaves one of the two performances.
VisitTerms == { <<"b">> }

VisitInit ==
    /\ Init
    /\ scheduleData = VisitDataset

VisitNext ==
    \/ onMount(VisitReadings)
    \/ ResetTime(VisitReadings)
    \/ SelectDay
    \/ SlideTime
    \/ ToggleHideEmpty
    \/ ToggleHideNoStream
    \/ SelectTimezone(VisitZones)
    \/ SelectTab
    \/ TypeSearch(VisitTerms)
    \/ ClearSearch

SpecVisit == VisitInit /\ [][VisitNext]_vars

-----------------------------------------------------------------------------
(* The controls of the mounted page, the theme button included *)

FrameNext ==
    \/ SelectDay
    \/ SlideTime
    \/ ToggleHideEmpty
    \/ ToggleHideNoStream
    \/ SelectTimezone(VisitZones)
    \/ SelectTab
    \/ TypeSearch(VisitTerms)
    \/ ClearSearch
    \/ toggleTheme

SpecFrame == VisitInit /\ [][FrameNext]_vars

-----------------------------------------------------------------------------
(* The pure helpers, called directly *)

\* Every "HH:MM" of a day.
ValidTimes == {HHMM(h, m) : h \in 0..23, m \in 0..59}

\* Time strings that are not two digits, a colon, two digits.
OtherTimes ==
    { <<>>,
      <<"1", "2">>,
      <<"1", "2", ":">>,
      <<":", "3", "0">>,
      <<"7", ":", "5">>,
      <<"a", "b", ":", "c", "d">>,
      <<"1", "2", ":", "x", "0">> }

\* The stages of the registry and two it does not list.
CallStages == DOMAIN livestreamLinks \cup {"Yuma", "S1"}

\* The days of the festival and one that is not.
CallDays == Days \cup {"Monday"}

Calls ==
    {[NoCall EXCEPT !.fn = "timeToMinutes", !.timeStr = t] :
        t \in ValidTimes \cup OtherTimes}
    \cup
    {[NoCall EXCEPT !.fn = "getLivestreamLink", !.stageName = s,
                    !.day = d] : s \in CallStages, d \in CallDays}

CallsInit ==
    /\ scheduleData = <<>>
    /\ schedule = <<>>
    /\ selectedDay = "Friday"
    /\ selectedTime = 15 * 60
    /\ hideEmptyStages = TRUE
    /\ hideNoStreamStages = FALSE
    /\ filteredPerformances =
           performancesAtTime(schedule, selectedDay, selectedTime)
    /\ stages = filteredStages(stagesForDay(schedule, selectedDay),
                               filteredPerformances, selectedDay,
                               selectedTime, hideEmptyStages,
                               hideNoStreamStages)
    /\ chronologicalPerformances = sortChronologically(schedule)
    /\ PageInit
    /\ call \in Calls
    /\ ret = NoRet

CallTimeToMinutes ==
    /\ call.fn = "timeToMinutes"
    /\ ~ret.done
    /\ ret' = [NoRet EXCEPT !.done = TRUE,
                            !.num = timeToMinutes(call.timeStr)]
    /\ UNCHANGED <<viewVars, call>>

CallGetLivestreamLink ==
    /\ call.fn = "getLivestreamLink"
    /\ ~ret.done
    /\ ret' = [NoRet EXCEPT !.done = TRUE,
                            !.link = getLivestreamLink(call.stageName,
                                                       call.day)]
    /\ UNCHANGED <<viewVars, call>>

CallsNext ==
    \/ CallTimeToMinutes
    \/ CallGetLivestreamLink

SpecCalls == CallsInit /\ [][CallsNext]_vars

-----------------------------------------------------------------------------
(* The filter of the current performances, called directly *)

\* Start and end times on both sides of midnight and of 05:00.
CurrentTimes ==
    {HHMM(0, 0), HHMM(4, 30), HHMM(5, 0), HHMM(12, 0), HHMM(23, 50)}

\* The minutes timeToMinutes can give, 300 to 1739, and some on either side.
ScheduleMinutes == 0..(30 * 60 - 1)

CurrentCalls ==
    {[NoCall EXCEPT !.fn = "performancesAtTime", !.minutes = m, !.day = d] :
        m \in ScheduleMinutes, d \in {"Friday", "Saturday"}}

\* A dataset of one Friday performance.
CurrentInit ==
    /\ \E start \in CurrentTimes, end \in CurrentTimes :
           scheduleData = <<Performance("A", "S1", "Friday", start, end)>>
    /\ schedule = chronologicalSort(scheduleData).schedule
    /\ selectedDay = "Friday"
    /\ selectedTime = 15 * 60
    /\ hideEmptyStages = TRUE
    /\ hideNoStreamStages = FALSE
    /\ filteredPerformances =
           performancesAtTime(schedule, selectedDay, selectedTime)
    /\ stages = filteredStages(stagesForDay(schedule, selectedDay),
                               filteredPerformances, selectedDay,
                               selectedTime, hideEmptyStages,
                               hideNoStreamStages)
    /\ chronologicalPerformances =
           chronologicalSort(scheduleData).chronologicalPerformances
    /\ PageInit
    /\ call \in CurrentCalls
    /\ ret = NoRet

CallPerformancesAtTime ==
    /\ call.fn = "performancesAtTime"
    /\ ~ret.done
    /\ ret' = [NoRet EXCEPT !.done = TRUE,
                            !.list = performancesAtTime(schedule, call.day,
                                                        call.minutes)]
    /\ UNCHANGED <<viewVars, call>>

CurrentNext == CallPerformancesAtTime

SpecCurrent == CurrentInit /\ [][CurrentNext]_vars

-----------------------------------------------------------------------------
(* Calls of the date and display functions *)

\* The zones the timezone select can hold: not yet set, the five listed
\* ones, and one the browser reported.
Zones == {""} \cup DOMAIN utcOffset

\* Two festival days of minutes.
FestivalMinutes == 0..(2 * 1440 - 1)

\* The start and end times the display is asked for: the valid ones on the
\* slider's grid, the last minutes before midnight and before the wrap, and
\* the ones that are not HH:MM.
DisplayTimes ==
    {HHMM(h, m) : h \in 0..23, m \in {0, 5, 10, 30, 55, 59}} \cup OtherTimes

FormatCalls ==
    {[NoCall EXCEPT !.fn = "createFestivalDate", !.minutes = m] :
        m \in FestivalMinutes}
    \cup
    {[NoCall EXCEPT !.fn = "formatSliderTime", !.minutes = m] :
        m \in SliderValues}
    \cup
    {[NoCall EXCEPT !.fn = "formatPerformanceTime", !.timeStr = t,
                    !.rejects = r] : t \in DisplayTimes, r \in BOOLEAN}

FormatInit ==
    /\ scheduleData = <<>>
    /\ schedule = <<>>
    /\ selectedDay \in Days
    /\ selectedTime = 15 * 60
    /\ hideEmptyStages = TRUE
    /\ hideNoStreamStages = FALSE
    /\ filteredPerformances =
           performancesAtTime(schedule, selectedDay, selectedTime)
    /\ stages = filteredStages(stagesForDay(schedule, selectedDay),
                               filteredPerformances, selectedDay,
                               selectedTime, hideEmptyStages,
                               hideNoStreamStages)
    /\ chronologicalPerformances = sortChronologically(schedule)
    /\ searchTerm = <<>>
    /\ filteredChronologicalPerformances =
           searchFilter(chronologicalPerformances, searchTerm)
    /\ selectedTimezone \in Zones
    /\ localOption = [label |-> <<"Local">>, value |-> ""]
    /\ now = 0
    /\ readBy = "nobody"
    /\ userTimezone = undefined
    /\ activeTab = "schedule"
    /\ theme = initialTheme(noItem)
    /\ storedTheme = theme
    /\ dataTheme = theme
    /\ call \in FormatCalls
    /\ call.fn = "createFestivalDate" => selectedTimezone = ""
    /\ ret = NoRet

CallCreateFestivalDate ==
    /\ call.fn = "createFestivalDate"
    /\ ~ret.done
    /\ LET made == createFestivalDate(Num(call.minutes), selectedDay,
                                      call.rejects)
       IN  ret' = [NoRet EXCEPT !.done = TRUE, !.threw = made.threw,
                                !.date = made.date]
    /\ UNCHANGED <<viewVars, call>>

CallFormatSliderTime ==
    /\ call.fn = "formatSliderTime"
    /\ ~ret.done
    /\ LET shown == formatSliderTime(Num(call.minutes), selectedDay,
                                     selectedTimezone, call.rejects)
       IN  ret' = [NoRet EXCEPT !.done = TRUE, !.threw = shown.threw,
                                !.text = shown.text]
    /\ UNCHANGED <<viewVars, call>>

CallFormatPerformanceTime ==
    /\ call.fn = "formatPerformanceTime"
    /\ ~ret.done
    /\ LET shown == formatPerformanceTime(call.timeStr, selectedDay,
                                          selectedTimezone, call.rejects)
       IN  ret' = [NoRet EXCEPT !.done = TRUE, !.threw = shown.threw,
                                !.text = shown.text]
    /\ UNCHANGED <<viewVars, call>>

FormatNext ==
    \/ CallCreateFestivalDate
    \/ CallFormatSliderTime
    \/ CallFormatPerformanceTime

SpecFormat == FormatInit /\ [][FormatNext]_vars

-----------------------------------------------------------------------------
(* Properties of timeToMinutes, checked under SpecCalls *)

Returned(fn) == call.fn = fn /\ ret.done

\* C2: for every valid "HH:MM", timeToMinutes returns HH*60+MM when HH is in
\* 5..23 and (HH+24)*60+MM when HH is in 0..4.
C2_TimeToMinutesValue ==
    \A h \in 0..23, m \in 0..59 :
        (Returned("timeToMinutes") /\ call.timeStr = HHMM(h, m)) =>
            /\ h \in 5..23 => ret.num = Num(h * 60 + m)
            /\ h \in 0..4 => ret.num = Num((h + 24) * 60 + m)

\* 04:59, the last minute that wraps, returned 28*60+59.
C2_Witness ==
    /\ Returned("timeToMinutes")
    /\ call.timeStr = HHMM(4, 59)
    /\ ret.num = Num(1739)

\* t1 comes before t2 in a schedule day that runs 05:00..23:59, 00:00..04:59.
DayOrderBefore(h1, m1, h2, m2) ==
    \/ h1 >= 5 /\ h2 < 5
    \/ (h1 >= 5 <=> h2 >= 5) /\ (h1 < h2 \/ (h1 = h2 /\ m1 < m2))

\* C3: every valid time with hour 0..4 maps above every valid time with hour
\* 5..23, and within each of the two ranges timeToMinutes is strictly
\* increasing in wall-clock order; so it is injective on valid times and
\* orders the schedule day as 05:00..23:59 followed by 00:00..04:59.
C3_TimeToMinutesOrder ==
    \A h1 \in 0..23, m1 \in 0..59 :
        (Returned("timeToMinutes") /\ call.timeStr = HHMM(h1, m1)) =>
            \A h2 \in 0..23, m2 \in 0..59 :
                LET other == timeToMinutes(HHMM(h2, m2))
                IN  /\ DayOrderBefore(h1, m1, h2, m2) <=> JsLt(ret.num, other)
                    /\ (h1 # h2 \/ m1 # m2) => ret.num # other

\* 00:00 returned more than 23:59 maps to.
C3_Witness ==
    /\ Returned("timeToMinutes")
    /\ call.timeStr = HHMM(0, 0)
    /\ JsLt(timeToMinutes(HHMM(23, 59)), ret.num)

-----------------------------------------------------------------------------
(* Properties of getLivestreamLink, checked under SpecCalls *)

\* C8: getLivestreamLink returns the single identifier when the registry
\* value of the stage is a string, whatever the day; the entry of the day
\* when the value is a per-day object, and nothing when the day has no entry
\* there (Quasar on Saturday: the Saturday identifier; Quasar on Monday:
\* nothing); nothing when the registry does not list the stage.  Every call
\* returns: an identifier or undefined.
C8_LivestreamLink ==
    Returned("getLivestreamLink") =>
        LET stage == call.stageName
            day == call.day
        IN  /\ stage \in {"Coachella Stage", "Outdoor Theatre", "Sahara",
                          "Mojave", "Gobi", "Sonora"} =>
                   /\ ret.link = livestreamLinks[stage].value
                   /\ ret.link # undefined
            /\ (stage = "Sahara") => ret.link = "afO7r8TQTSw"
            /\ (stage = "Quasar" /\ day = "Friday") => ret.link = "1MOJG5VTh-Y"
            /\ (stage = "Quasar" /\ day = "Saturday") =>
                   ret.link = "SreThbvUUI8"
            /\ (stage = "Quasar" /\ day = "Sunday") => ret.link = "jKWRY1btTOs"
            /\ (stage = "Quasar" /\ day \notin Days) => ret.link = undefined
            /\ stage \notin DOMAIN livestreamLinks => ret.link = undefined

\* Quasar was resolved for Saturday, and the call for Monday returns too.
C8_Witness ==
    /\ Returned("getLivestreamLink")
    /\ call.stageName = "Quasar"
    /\ call.day = "Saturday"
    /\ ret.link = "SreThbvUUI8"
    /\ getLivestreamLink("Quasar", "Monday") = undefined

-----------------------------------------------------------------------------
(* Properties of the day and time filter, checked under Spec *)

\* p is on the selected day and the minute lies in [start, end).
IsCurrent(p, day, minute) ==
    LET startMinutes == timeToMinutes(p.start)
        endMinutes == timeToMinutes(p.end)
    IN  /\ p.day = day
        /\ ~startMinutes.nan /\ ~endMinutes.nan
        /\ startMinutes.val <= minute
        /\ minute < endMinutes.val

\* The k-th smallest member of a set of indices.
Kth(S, k) == CHOOSE i \in S : Cardinality({j \in S : j <= i}) = k

\* The elements of seq at the indices in S, in order.
Pick(seq, S) == [k \in 1..Cardinality(S) |-> seq[Kth(S, k)]]

CurrentAt(day, minute) ==
    Pick(schedule, {i \in DOMAIN schedule : IsCurrent(schedule[i], day, minute)})

InSchedule(p) == \E i \in DOMAIN schedule : schedule[i] = p

\* C1: the current-performance set is exactly the performances of the
\* selected day with timeToMinutes(start) <= m < timeToMinutes(end), in
\* dataset order.  22:00-00:10 is current at 1439 and 1445 and not at 1450;
\* 23:50-00:20 is current at 1445 and not at 1460.
C1_CurrentPerformances ==
    LET late == Performance("B", "Quasar", "Friday", HHMM(22, 0), HHMM(0, 10))
        later == Performance("A", "S1", "Friday", HHMM(23, 50), HHMM(0, 20))
    IN  /\ filteredPerformances = CurrentAt(selectedDay, selectedTime)
        /\ performancesAtTime(schedule, selectedDay, 1439) =
               CurrentAt(selectedDay, 1439)
        /\ (InSchedule(late) /\ selectedDay = "Friday") =>
               /\ includes(performancesAtTime(schedule, selectedDay, 1439), late)
               /\ selectedTime = 1445 => includes(filteredPerformances, late)
               /\ selectedTime = 1450 => ~includes(filteredPerformances, late)
        /\ (InSchedule(later) /\ selectedDay = "Friday") =>
               /\ selectedTime = 1430 => includes(filteredPerformances, later)
               /\ selectedTime = 1445 => includes(filteredPerformances, later)
               /\ selectedTime = 1460 => ~includes(filteredPerformances, later)

\* At 00:10 the set that ends then has left and the one that ends at 00:20
\* is still on.
C1_Witness ==
    /\ selectedDay = "Friday"
    /\ selectedTime = 1450
    /\ Len(schedule) = 2
    /\ schedule[1].end = HHMM(0, 10)
    /\ schedule[2].end = HHMM(0, 20)
    /\ filteredPerformances = <<schedule[2]>>

-----------------------------------------------------------------------------
(* Properties of the visible stage list, checked under Spec *)

Elements(seq) == {seq[i] : i \in DOMAIN seq}

StrictlyAscending(seq) ==
    \A i \in 1..(Len(seq) - 1) : StringLess(seq[i], seq[i + 1])

DayStages == stagesForDay(schedule, selectedDay)

HasLink(stage) == getLivestreamLink(stage, selectedDay) # undefined

\* C4: whenever hideNoStreamStages is set and the selected minute is below
\* 960, the visible stage list is empty, whatever the dataset, the day and
\* hideEmptyStages.
C4_EmptyBeforeSixteen ==
    (hideNoStreamStages /\ selectedTime < 960) => stages = <<>>

\* Before 16:00 a stage with a stream and a performance on is hidden, with
\* hideEmptyStages set.
C4_Witness ==
    /\ hideNoStreamStages
    /\ hideEmptyStages
    /\ selectedTime = 955
    /\ \E i \in DOMAIN filteredPerformances :
           HasLink(filteredPerformances[i].stage)
    /\ stages = <<>>

\* C5: whenever hideNoStreamStages is set, hideEmptyStages is not and the
\* selected minute is at least 960, the visible stage list is exactly the
\* stages of the selected day for which getLivestreamLink resolves an
\* identifier on that day; no stage the registry does not list is visible,
\* and a dataset of such stages only shows no stage.
C5_StreamedStages ==
    (hideNoStreamStages /\ ~hideEmptyStages /\ selectedTime >= 960) =>
        /\ Elements(stages) = {s \in Elements(DayStages) : HasLink(s)}
        /\ StrictlyAscending(stages)
        /\ \A i \in DOMAIN stages : stages[i] \in DOMAIN livestreamLinks
        /\ (\A i \in DOMAIN schedule :
               schedule[i].stage \notin DOMAIN livestreamLinks) =>
                   stages = <<>>

\* At 16:00 on Friday, S1 (not in the registry) is dropped and Quasar stays.
C5_Witness ==
    /\ hideNoStreamStages
    /\ ~hideEmptyStages
    /\ selectedTime = 960
    /\ DayStages = <<"Quasar", "S1">>
    /\ stages = <<"Quasar">>

\* C6: whenever hideEmptyStages is set and hideNoStreamStages is not, the
\* visible stage list is exactly the distinct stages with a performance in
\* the current-performance set, in sorted order; with both toggles off it is
\* the stages of the selected day, at every minute.
C6_OccupiedStages ==
    /\ (hideEmptyStages /\ ~hideNoStreamStages) =>
           /\ Elements(stages) =
                  {filteredPerformances[i].stage :
                       i \in DOMAIN filteredPerformances}
           /\ StrictlyAscending(stages)
    /\ (~hideEmptyStages /\ ~hideNoStreamStages) =>
           /\ stages = DayStages
           /\ Elements(stages) =
                  {schedule[i].stage :
                       i \in {j \in DOMAIN schedule :
                                  schedule[j].day = selectedDay}}
           /\ StrictlyAscending(stages)

\* At 22:00 on Friday only Quasar is occupied; S1 starts at 23:50.
C6_Witness ==
    /\ hideEmptyStages
    /\ ~hideNoStreamStages
    /\ selectedTime = 1320
    /\ DayStages = <<"Quasar", "S1">>
    /\ stages = <<"Quasar">>

\* The visible stage list with the toggles set as given and the rest of the
\* view as it is.
StagesWith(hideEmpty, hideNoStream) ==
    filteredStages(DayStages, filteredPerformances, selectedDay,
                   selectedTime, hideEmpty, hideNoStream)

\* C7: the two toggles compose.  With both set, the visible stage list is
\* the intersection of the list with only hideEmptyStages set and the list
\* with only hideNoStreamStages set, and applying the two filters in the
\* other order gives the same list.
C7_TogglesCompose ==
    LET onlyEmpty == StagesWith(TRUE, FALSE)
        onlyNoStream == StagesWith(FALSE, TRUE)
        both == IF hideEmptyStages /\ hideNoStreamStages THEN stages
                ELSE StagesWith(TRUE, TRUE)
    IN  /\ both = SelectSeq(onlyEmpty, LAMBDA s : includes(onlyNoStream, s))
        /\ both = SelectSeq(onlyNoStream, LAMBDA s : includes(onlyEmpty, s))
        /\ both = hideEmptyFilter(
                      hideNoStreamFilter(DayStages, selectedDay, selectedTime),
                      filteredPerformances)

\* With both set at 23:50 on Friday each filter alone keeps more than the
\* two together.
C7_Witness ==
    /\ hideEmptyStages
    /\ hideNoStreamStages
    /\ selectedTime = 1430
    /\ StagesWith(TRUE, FALSE) = <<"Quasar", "S1">>
    /\ StagesWith(FALSE, TRUE) = <<"Quasar">>
    /\ stages = <<"Quasar">>

-----------------------------------------------------------------------------
(* Properties of the chronological list, checked under Spec *)

DayRank(day) == CASE day = "Friday" -> 0 [] day = "Saturday" -> 1
                  [] day = "Sunday" -> 2

StartMinute(p) == timeToMinutes(p.start).val

\* Where a performance stands in the dataset (its performances differ).
DatasetIndex(p) == CHOOSE i \in DOMAIN schedule : schedule[i] = p

SameSlot(a, b) == a.day = b.day /\ StartMinute(a) = StartMinute(b)

\* C9: chronologicalPerformances is a permutation of the dataset in
\* ascending order of (dayRank(day), timeToMinutes(start)), Friday=0,
\* Saturday=1, Sunday=2: of two neighbours the first has the lower day rank,
\* or the same day and a start that is not later; performances with the same
\* day and start keep their dataset order.
C9_ChronologicalOrder ==
    LET sorted == chronologicalPerformances
    IN  /\ Len(sorted) = Len(schedule)
        /\ \A p \in Elements(schedule) \cup Elements(sorted) :
               Cardinality({i \in DOMAIN sorted : sorted[i] = p}) =
                   Cardinality({i \in DOMAIN schedule : schedule[i] = p})
        /\ \A i \in 1..(Len(sorted) - 1) :
               \/ DayRank(sorted[i].day) < DayRank(sorted[i + 1].day)
               \/ /\ sorted[i].day = sorted[i + 1].day
                  /\ StartMinute(sorted[i]) <= StartMinute(sorted[i + 1])
        /\ \A i, j \in DOMAIN sorted :
               (i < j /\ SameSlot(sorted[i], sorted[j])) =>
                   DatasetIndex(sorted[i]) < DatasetIndex(sorted[j])

\* A Friday set listed after a later day's set moved in front of it, though
\* it starts later in the evening.
C9_Witness ==
    /\ Len(schedule) = 2
    /\ schedule[1].day # "Friday"
    /\ schedule[2].day = "Friday"
    /\ StartMinute(schedule[1]) < StartMinute(schedule[2])
    /\ chronologicalPerformances = <<schedule[2], schedule[1]>>

\* C10: the chronological sort is idempotent: sorting its own output gives
\* the same sequence, element for element, also when performances share
\* their day and start.
C10_SortIdempotent ==
    sortChronologically(chronologicalPerformances) = chronologicalPerformances

\* Two different performances with the same day and start were sorted, the
\* second of the dataset among them.
C10_Witness ==
    /\ Len(chronologicalPerformances) = 2
    /\ chronologicalPerformances[1] # chronologicalPerformances[2]
    /\ SameSlot(chronologicalPerformances[1], chronologicalPerformances[2])
    /\ schedule[1].artist = "dj snake"

-----------------------------------------------------------------------------
(* The search filter *)

IsBlank(term) == \A i \in DOMAIN term : term[i] \in {" ", "\t"}

\* The same letter, whatever its case.
SameLetter(a, b) ==
    \/ a = b
    \/ \E k \in 1..Len(UpperCase) :
           {a, b} = {UpperCase[k], LowerCase[k]}

\* The term occurs in the artist's name at some offset, letter for letter,
\* case ignored.
ContainsIgnoringCase(artist, term) ==
    LET name == Spelling[artist]
    IN  \E offset \in 0..(Len(name) - Len(term)) :
            \A k \in 1..Len(term) : SameLetter(name[offset + k], term[k])

Listed(term) ==
    Pick(chronologicalPerformances,
         {i \in DOMAIN chronologicalPerformances :
              ContainsIgnoringCase(chronologicalPerformances[i].artist, term)})

\* C11: with an empty or whitespace-only search term the search-filtered
\* list is element for element the chronological list.
C11_BlankSearch ==
    IsBlank(searchTerm) =>
        filteredChronologicalPerformances = chronologicalPerformances

\* Blanks and a tab were typed over a list of two performances, one of
\* which has a blank in its name and one of which has not.
C11_Witness ==
    /\ searchTerm = <<" ", "\t", " ">>
    /\ Len(filteredChronologicalPerformances) = 2
    /\ \E i \in 1..2 : chronologicalPerformances[i].artist = "dj snake"
    /\ \E i \in 1..2 : chronologicalPerformances[i].artist = "A"

\* C12: with a non-blank search term the search-filtered list is exactly
\* the subsequence of the chronological list whose artist contains the term
\* as a substring, case ignored, in the chronological order.  "DJ" matches
\* "dj snake".
C12_SearchMatches ==
    ~IsBlank(searchTerm) =>
        /\ filteredChronologicalPerformances = Listed(searchTerm)
        /\ \A i \in DOMAIN chronologicalPerformances :
               (/\ searchTerm = <<"D", "J">>
                /\ chronologicalPerformances[i].artist = "dj snake") =>
                   includes(filteredChronologicalPerformances,
                            chronologicalPerformances[i])

\* "DJ" was typed over a list that holds "dj snake" and another artist; only
\* "dj snake" is left.
C12_Witness ==
    /\ searchTerm = <<"D", "J">>
    /\ Len(chronologicalPerformances) = 2
    /\ Len(filteredChronologicalPerformances) = 1
    /\ filteredChronologicalPerformances[1].artist = "dj snake"

-----------------------------------------------------------------------------
(* The stages of a day *)

OnDay(day) == {i \in DOMAIN schedule : schedule[i].day = day}

\* C13: the stages of a day are exactly the stage names that occur on a
\* performance of that day, each once, in ascending order; a stage that
\* only performs on other days is not among them.
C13_StagesForDay ==
    \A day \in Days :
        LET listed == stagesForDay(schedule, day)
        IN  /\ Elements(listed) = {schedule[i].stage : i \in OnDay(day)}
            /\ StrictlyAscending(listed)
            /\ \A i \in DOMAIN schedule :
                   (\A j \in OnDay(day) : schedule[j].stage # schedule[i].stage)
                       => ~includes(listed, schedule[i].stage)
            /\ day = selectedDay =>
                   \A k \in DOMAIN stages : includes(listed, stages[k])

\* Friday has S1 and Quasar, in that order in the dataset; Saturday is the
\* selected day and has neither.
C13_Witness ==
    /\ Len(schedule) = 2
    /\ schedule[1].stage = "S1" /\ schedule[1].day = "Friday"
    /\ schedule[2].stage = "Quasar" /\ schedule[2].day = "Friday"
    /\ selectedDay = "Saturday"
    /\ stagesForDay(schedule, "Friday") = <<"Quasar", "S1">>
    /\ stagesForDay(schedule, selectedDay) = <<>>

-----------------------------------------------------------------------------
(* Time strings that are not HH:MM *)

\* C14: timeToMinutes returns 0 for every missing or malformed time string:
\* for the absent or empty one, and also for one that is not HH:MM, such as
\* one with parts that are not numbers or one without a colon.
C14_MalformedIsZero ==
    (Returned("timeToMinutes") /\ call.timeStr \notin ValidTimes) =>
        ret.num = Num(0)

-----------------------------------------------------------------------------
(* The display of times *)

Displayed == Returned("formatSliderTime") \/ Returned("formatPerformanceTime")

\* C15: the display never throws: for every time string, the missing and
\* the malformed ones included, every day and every timezone,
\* formatPerformanceTime and formatSliderTime return a string.
C15_DisplayNeverThrows == Displayed => ~ret.threw

-----------------------------------------------------------------------------
(* The synthetic calendar *)

\* The festival's clocks: minutes since 2025-04-11 00:00 in Los Angeles.
FestivalClock(date) == date.time - 420

\* C16: createFestivalDate puts minute m of the selected day on the
\* calendar Friday = 2025-04-11, Saturday = 2025-04-12, Sunday = 2025-04-13
\* at hour floor(m / 60) mod 24 and minute m mod 60, on the next calendar
\* date exactly when m >= 1440.  For 0 <= m < 2880 the instant is the day's
\* midnight plus m minutes, so it grows with m.
C16_FestivalDate ==
    Returned("createFestivalDate") =>
        LET m == call.minutes
            clock == FestivalClock(ret.date)
            next == createFestivalDate(Num(m + 1), selectedDay, FALSE)
        IN  /\ ~ret.threw /\ ~ret.date.invalid
            /\ clock = 1440 * DayRank(selectedDay) + m
            /\ clock \div 1440 =
                   DayRank(selectedDay) + (IF m >= 1440 THEN 1 ELSE 0)
            /\ (clock % 1440) \div 60 = (m \div 60) % 24
            /\ clock % 60 = m % 60
            /\ (m + 1) \in FestivalMinutes =>
                   next.date.time = ret.date.time + 1

\* Minute 1445 of Saturday is 00:05 on Sunday 2025-04-13 in Los Angeles,
\* 07:05 UTC.
C16_Witness ==
    /\ Returned("createFestivalDate")
    /\ call.minutes = 1445
    /\ selectedDay = "Saturday"
    /\ ret.date = Date(2 * 1440 + 7 * 60 + 5)

-----------------------------------------------------------------------------
(* The timezone of the display *)

\* h:mm a
Clock(hour, minute) ==
    LET h == IF hour \in {0, 12} THEN 12
             ELSE IF hour > 12 THEN hour - 12 ELSE hour
        hh == IF h >= 10 THEN <<"1", Digits[h - 9]>> ELSE <<Digits[h + 1]>>
        mm == <<Digits[(minute \div 10) + 1], Digits[(minute % 10) + 1]>>
        half == IF hour >= 12 THEN <<"P", "M">> ELSE <<"A", "M">>
    IN  hh \o <<":">> \o mm \o <<" ">> \o half

\* C17: with the selected timezone empty every formatted time is the one
\* the festival's zone gives; with the festival's zone the clock shown for
\* minute m is hour floor(m / 60) mod 24, minute m mod 60.
C17_TimezoneFallback ==
    /\ Returned("formatSliderTime") =>
           LET m == call.minutes
           IN  /\ selectedTimezone = "" =>
                      ret.text = formatSliderTime(Num(m), selectedDay,
                                                  "America/Los_Angeles",
                                                  call.rejects).text
               /\ selectedTimezone \in {"", "America/Los_Angeles"} =>
                      ret.text = Clock((m \div 60) % 24, m % 60)
    /\ (Returned("formatPerformanceTime") /\ call.timeStr \in ValidTimes) =>
           LET m == timeToMinutes(call.timeStr).val
           IN  /\ selectedTimezone = "" =>
                      ret.text =
                          formatPerformanceTime(call.timeStr, selectedDay,
                                                "America/Los_Angeles",
                                                call.rejects).text
               /\ selectedTimezone \in {"", "America/Los_Angeles"} =>
                      /\ ~ret.threw
                      /\ ret.text = Clock((m \div 60) % 24, m % 60)

\* With no timezone selected, minute 1445 shows as five past midnight.
C17_Witness ==
    /\ Returned("formatSliderTime")
    /\ selectedTimezone = ""
    /\ call.minutes = 1445
    /\ ret.text = <<"1", "2", ":", "0", "5", " ", "A", "M">>

-----------------------------------------------------------------------------
(* The initial view *)

\* The clock of Los Angeles at the last reading: the minute of the week,
\* from Sunday 00:00.
FestivalNow == (now + 7 * 1440 - 420) % (7 * 1440)

\* The minute of the day at the last reading, the hours before 05:00
\* counted as 24:00 to 28:59.
FestivalMinuteNow ==
    LET minuteOfDay == FestivalNow % 1440
    IN  IF minuteOfDay < 5 * 60 THEN minuteOfDay + 1440 ELSE minuteOfDay

\* The slider position that belongs to the last reading.
SliderNow(position) ==
    IF 720 <= FestivalMinuteNow /\ FestivalMinuteNow <= 1560
    THEN /\ position % 5 = 0
         /\ position - FestivalMinuteNow \in -2..2
    ELSE position = 900

\* The week from Sunday 00:00: Saturday 03:00 is minute 8820, Sunday 03:00
\* minute 180, Monday 03:00 minute 1620.
DayNow ==
    IF FestivalNow >= 6 * 1440 + 180 \/ FestivalNow < 180 THEN "Saturday"
    ELSE IF FestivalNow >= 180 /\ FestivalNow < 1440 + 180 THEN "Sunday"
    ELSE "Friday"

\* C18: on mount the slider is set from the festival's clock c (the hours
\* before 05:00 counted as 24:00 to 28:59): to c rounded to the nearest
\* multiple of 5 when 720 <= c <= 1560, and to 900 otherwise.  Every time
\* from 02:01 to 11:59 gives 900.
C18_InitialSlider ==
    readBy = "onMount" =>
        /\ SliderNow(selectedTime)
        /\ selectedTime \in SliderValues
        /\ (FestivalNow % 1440) \in (2 * 60 + 1)..(11 * 60 + 59) =>
               selectedTime = 900

\* Mounted at 00:03 in Los Angeles: 1443 rounds to 1445.
C18_Witness ==
    /\ readBy = "onMount"
    /\ FestivalNow % 1440 = 3
    /\ selectedTime = 1445

\* C19: on mount the day follows a 03:00 boundary: Saturday from Saturday
\* 03:00 until Sunday 03:00, Sunday from Sunday 03:00 until Monday 03:00,
\* Friday at every other time, the hours of Saturday before 03:00 included.
C19_InitialDay ==
    readBy = "onMount" =>
        /\ selectedDay = DayNow
        /\ (FestivalNow \div 1440 = 6 /\ FestivalNow % 1440 < 180) =>
               selectedDay = "Friday"
        /\ (FestivalNow \div 1440 = 1 /\ FestivalNow % 1440 < 180) =>
               selectedDay = "Sunday"

\* Mounted on Sunday at 02:59 in Los Angeles: still Saturday's programme.
C19_Witness ==
    /\ readBy = "onMount"
    /\ FestivalNow = 179
    /\ selectedDay = "Saturday"

-----------------------------------------------------------------------------
(* Reset Time *)

\* C20: Reset Time is the computation of the initial load: after it the day
\* and the minute are the ones the clock's reading gives, whatever they were
\* before, and the timezone, the search term and the two toggles are as
\* they were.
C20_ResetIsInitialLoad ==
    [][ResetTime(ResetReadings) =>
           /\ selectedDay' = DayNow'
           /\ SliderNow(selectedTime)'
           /\ selectedTime' = setInitialTimeAndDay(now').selectedTime
           /\ selectedDay' = setInitialTimeAndDay(now').selectedDay
           /\ UNCHANGED <<selectedTimezone, searchTerm, hideEmptyStages,
                          hideNoStreamStages>>]_vars

\* Reset on Monday at 02:00 in Los Angeles with a search typed and both
\* toggles changed: Sunday, 26:00.
C20_Witness ==
    /\ readBy = "resetTimeToDefault"
    /\ FestivalNow = 1440 + 120
    /\ selectedDay = "Sunday"
    /\ selectedTime = 1560
    /\ searchTerm = <<"D", "J">>
    /\ ~hideEmptyStages
    /\ hideNoStreamStages
    /\ selectedTimezone = "Asia/Kolkata"

-----------------------------------------------------------------------------
(* The timezone at startup *)

\* C21: when the detection of the timezone fails at startup, the selected
\* timezone is the festival's, the Local option reads "Local (Unknown)" and
\* has the festival's zone as its value, and the day and the slider are set
\* from the clock all the same; when it succeeds, the selected timezone is
\* the detected zone and the Local option has that zone as its value.
C21_TimezoneDetection ==
    readBy = "onMount" =>
        IF userTimezone \in {"threw", "undefined"}
        THEN /\ selectedTimezone = "America/Los_Angeles"
             /\ localOption = [label |-> <<"Local", "Unknown">>,
                               value |-> "America/Los_Angeles"]
             /\ selectedDay = DayNow
             /\ SliderNow(selectedTime)
        ELSE /\ selectedTimezone = userTimezone
             /\ localOption.value = userTimezone
             /\ selectedDay = DayNow
             /\ SliderNow(selectedTime)

\* The detection threw on Sunday at 00:03 in Los Angeles: Saturday, 24:05,
\* shown in the festival's zone.
C21_Witness ==
    /\ readBy = "onMount"
    /\ userTimezone = "threw"
    /\ FestivalNow = 3
    /\ selectedDay = "Saturday"
    /\ selectedTime = 1445
    /\ selectedTimezone = "America/Los_Angeles"
    /\ localOption.label = <<"Local", "Unknown">>

-----------------------------------------------------------------------------
(* The hours after midnight at startup *)

\* The calendar date of the last reading in Los Angeles, as its day of the
\* week: 0 is Sunday, 6 is Saturday.
CalendarDayNow == FestivalNow \div 1440

\* The minute of that calendar date.
MinuteOfDayNow == FestivalNow % 1440

\* The festival day that starts on a day of the week, if one does.
FestivalDayOn(dayOfWeek) ==
    CASE dayOfWeek = 5 -> "Friday"
      [] dayOfWeek = 6 -> "Saturday"
      [] dayOfWeek = 0 -> "Sunday"
      [] OTHER -> "none"

\* From 00:00 to 02:00 the selected day is the festival day of the calendar
\* date before: Friday on Saturday, Saturday on Sunday, Sunday on Monday.
AfterMidnightDay ==
    MinuteOfDayNow <= 120 =>
        /\ selectedTime >= 1440
        /\ CalendarDayNow = 6 => selectedDay = "Friday"
        /\ CalendarDayNow = 0 => selectedDay = "Saturday"
        /\ CalendarDayNow = 1 => selectedDay = "Sunday"

\* C27, as claimed: whenever setInitialTimeAndDay gives a slider value of
\* 1440 or more, the selected day is the festival day of the calendar date
\* before (Friday on Saturday, Saturday on Sunday, Sunday on Monday, from
\* 00:00 to 02:00), and it is never the festival day that starts on the
\* current calendar date.
C27_AfterMidnightAsClaimed ==
    readBy = "onMount" =>
        /\ AfterMidnightDay
        /\ selectedTime >= 1440 => selectedDay # FestivalDayOn(CalendarDayNow)

\* C27: from 00:00 to 02:00 setInitialTimeAndDay gives a slider value of
\* 1440 or more with Friday on calendar Saturday, Saturday on Sunday, Sunday
\* on Monday and Friday, the default, on every other date.  A slider value
\* of 1440 or more comes with the festival day that starts on the current
\* calendar date in two cases only: at 23:58 and 23:59, which round up to
\* 1440, and from 00:00 to 02:00 on calendar Friday.
C27_AfterMidnight ==
    readBy = "onMount" =>
        /\ AfterMidnightDay
        /\ (MinuteOfDayNow <= 120 /\ CalendarDayNow \in 2..5) =>
               selectedDay = "Friday"
        /\ (selectedTime >= 1440 /\ selectedDay = FestivalDayOn(CalendarDayNow))
               <=> \/ MinuteOfDayNow >= 1438 /\ CalendarDayNow \in {5, 6, 0}
                   \/ MinuteOfDayNow <= 120 /\ CalendarDayNow = 5

\* Mounted on Saturday at 23:58 in Los Angeles: the slider is at 24:00 and
\* the day is Saturday.
C27_Witness ==
    /\ readBy = "onMount"
    /\ CalendarDayNow = 6
    /\ MinuteOfDayNow = 1438
    /\ selectedTime = 1440
    /\ selectedDay = "Saturday"

-----------------------------------------------------------------------------
(* Performances that end before they start *)

\* C29: a performance with timeToMinutes(end) <= timeToMinutes(start), such
\* as one that starts before 05:00 and ends at or after 05:00 or one whose
\* start and end are equal, is current at no minute of any day; and a
\* performance is current at a slider minute from 720 to 1560 only if its
\* interval from start to end meets that range.
C29_EndNotAfterStart ==
    Returned("performancesAtTime") =>
        LET p == schedule[1]
            startMinutes == timeToMinutes(p.start).val
            endMinutes == timeToMinutes(p.end).val
        IN  /\ endMinutes <= startMinutes => ret.list = <<>>
            /\ p.start = p.end => ret.list = <<>>
            /\ (p.start = HHMM(4, 30) /\ p.end \in {HHMM(5, 0), HHMM(12, 0)})
                   => ret.list = <<>>
            /\ (ret.list # <<>> /\ call.minutes \in 720..1560) =>
                   \E minute \in 720..1560 :
                       startMinutes <= minute /\ minute < endMinutes
            /\ ret.list # <<>> =>
                   /\ ret.list = <<p>>
                   /\ call.day = p.day
                   /\ startMinutes <= call.minutes
                   /\ call.minutes < endMinutes

\* A set from 04:30 to 05:00, asked for at 04:35 of its own day, is not on.
C29_Witness ==
    /\ Returned("performancesAtTime")
    /\ schedule[1].start = HHMM(4, 30)
    /\ schedule[1].end = HHMM(5, 0)
    /\ call.day = "Friday"
    /\ call.minutes = 28 * 60 + 35
    /\ ret.list = <<>>

-----------------------------------------------------------------------------
(* The schedule grid *)

\* {@const liveLink = getLivestreamLink(stage)} in the grid and
\* {@const liveLink = getLivestreamLink(performance.stage)} in the list: the
\* function reads the selected day.
liveLink(stageName) == getLivestreamLink(stageName, selectedDay)

\* {@const performance = filteredPerformances.find(p => p.stage === stage)}
performance(stage) == find(filteredPerformances, stage)

\* The places in the dataset of the performances now on at a stage.
CurrentOn(stage) ==
    {i \in DOMAIN schedule :
         /\ IsCurrent(schedule[i], selectedDay, selectedTime)
         /\ schedule[i].stage = stage}

\* C28: in the grid each visible stage shows at most one performance, the
\* first in dataset order of the current performances on that stage; a
\* visible stage with no current performance shows none, and with
\* hideEmptyStages set every visible stage shows one.
C28_GridPerformance ==
    activeTab = "schedule" =>
        \A k \in DOMAIN stages :
            LET stage == stages[k]
                on == CurrentOn(stage)
            IN  /\ on = {} => performance(stage) = notFound
                /\ on # {} =>
                       performance(stage) =
                           schedule[CHOOSE i \in on : \A j \in on : i <= j]
                /\ hideEmptyStages => performance(stage) # notFound

\* Two performances are on at one stage: the grid shows the dataset's first,
\* here the one that sorts second by name.
C28_Witness ==
    /\ activeTab = "schedule"
    /\ Len(filteredPerformances) = 2
    /\ filteredPerformances[1].stage = filteredPerformances[2].stage
    /\ filteredPerformances[1].artist = "dj snake"
    /\ stages = <<filteredPerformances[1].stage>>
    /\ performance(stages[1]) = filteredPerformances[1]
    /\ performance(stages[1]) # filteredPerformances[2]

-----------------------------------------------------------------------------
(* The theme *)

\* The store has been created.
ThemeLoaded == theme # undefined

\* The stored value and the attribute follow the theme, and a light or dark
\* theme toggles to the other of the two.
ThemeKept ==
    ThemeLoaded =>
        /\ storedTheme = theme
        /\ dataTheme = theme
        /\ theme \in {"light", "dark"} =>
               nextTheme(theme) \in {"light", "dark"} \ {theme}

\* From an absent, light or dark stored value the theme is light or dark,
\* and every change of the theme is a toggle's.
ThemeStep ==
    /\ (~ThemeLoaded /\ storedTheme \in {noItem, "light", "dark"}) =>
           theme' \in {"light", "dark"}
    /\ (ThemeLoaded /\ theme' # theme) => theme' = nextTheme(theme)
    /\ (ThemeLoaded /\ theme \in {"light", "dark"}) =>
           theme' \in {"light", "dark"}

\* C24 as claimed: the theme starts light when nothing is stored and as the
\* stored value otherwise; from then on the stored value and the data-theme
\* attribute equal the theme, and from an absent, light or dark stored value
\* the theme is always light or dark, each toggle giving the other.
C24_ThemeAsClaimed ==
    /\ []ThemeKept
    /\ [][/\ ThemeStep
          /\ ~ThemeLoaded =>
                 theme' = IF storedTheme = noItem
                          THEN "light"
                          ELSE storedTheme]_vars

\* C24: the theme starts light when nothing or the empty string is stored
\* and as the stored value otherwise; from then on the stored value and the
\* data-theme attribute equal the theme, and from an absent, light or dark
\* stored value the theme is always light or dark, each toggle giving the
\* other.
C24_Theme ==
    /\ []ThemeKept
    /\ [][/\ ThemeStep
          /\ ~ThemeLoaded =>
                 theme' = IF storedTheme \in {noItem, ""}
                          THEN "light"
                          ELSE storedTheme]_vars

\* A stored value that is neither light nor dark became the theme and the
\* attribute.
C24_Witness ==
    /\ theme = "blue"
    /\ storedTheme = "blue"
    /\ dataTheme = "blue"

-----------------------------------------------------------------------------
(* The selections stay in their domains *)

\* C22: in every state reached by startup, day selection, slider movement,
\* reset, toggles, timezone and search events the selected day is Friday,
\* Saturday or Sunday and the selected minute is a multiple of 5 from 720 to
\* 1560.
C22_SelectionsInDomain ==
    /\ selectedDay \in {"Friday", "Saturday", "Sunday"}
    /\ selectedTime \in 720..1560
    /\ selectedTime % 5 = 0

\* The page was started at Saturday 23:58, which gave the slider's 24:00;
\* then the zone was changed, a search typed, the day changed and the time
\* reset at that reading.
C22_Witness ==
    /\ readBy = "resetTimeToDefault"
    /\ FestivalMinuteNow = 23 * 60 + 58
    /\ selectedTime = 1440
    /\ selectedDay = "Saturday"
    /\ selectedTimezone = "UTC"
    /\ searchTerm = <<"b">>
    /\ hideNoStreamStages

-----------------------------------------------------------------------------
(* The view is derived from the selections *)

\* The stages the selections and the dataset call for.
DerivedStages ==
    {stage \in {schedule[i].stage : i \in OnDay(selectedDay)} :
         /\ hideEmptyStages => CurrentOn(stage) # {}
         /\ hideNoStreamStages => (selectedTime >= 960 /\ HasLink(stage))}

\* C23: after any sequence of events the stage list and the current
\* performances are the ones that the selected day, minute and toggles and
\* the dataset give, whatever was selected before: the current performances
\* are the dataset's of that day and minute, in dataset order, and the stage
\* list is the ascending list of the day's stages that pass the toggles.
C23_DerivedView ==
    /\ filteredPerformances = CurrentAt(selectedDay, selectedTime)
    /\ StrictlyAscending(stages)
    /\ Elements(stages) = DerivedStages

\* Started on Saturday at 23:58, which showed Saturday; then Friday was
\* chosen and both toggles set: Friday's set at 24:00 and its stage show.
C23_Witness ==
    /\ readBy = "onMount"
    /\ selectedDay = "Friday"
    /\ selectedTime = 1440
    /\ hideEmptyStages
    /\ hideNoStreamStages
    /\ Len(filteredPerformances) = 1
    /\ filteredPerformances[1].artist = "B"
    /\ stages = <<"Quasar">>

-----------------------------------------------------------------------------
(* The dataset is read only *)

\* C25: no operation modifies the dataset: after any sequence of events the
\* schedule holds the performances it was loaded with, in the same order;
\* the chronological sort orders a copy.
C25_DatasetUnchanged ==
    /\ schedule = scheduleData
    /\ Len(chronologicalPerformances) = Len(schedule)
    /\ \A i \in DOMAIN schedule :
           \E j \in DOMAIN chronologicalPerformances :
               chronologicalPerformances[j] = schedule[i]

\* After a startup, a search, a reset and a toggle the sorted list starts
\* with the Friday set while the dataset still starts with the Saturday one.
C25_Witness ==
    /\ readBy = "resetTimeToDefault"
    /\ searchTerm = <<"b">>
    /\ ~hideEmptyStages
    /\ schedule = VisitDataset
    /\ schedule[1].day = "Saturday"
    /\ chronologicalPerformances[1].day = "Friday"
    /\ chronologicalPerformances # schedule

-----------------------------------------------------------------------------
(* The links of the "All Performances" list *)

\* C26: in the "All Performances" list the link shown for a performance is
\* the identifier of the performance's stage on the performance's own day,
\* whichever day is selected.
C26_ListLinkOfOwnDay ==
    activeTab = "list" =>
        \A i \in DOMAIN filteredChronologicalPerformances :
            LET listed == filteredChronologicalPerformances[i]
            IN  liveLink(listed.stage) =
                    getLivestreamLink(listed.stage, listed.day)

-----------------------------------------------------------------------------
(* What a control leaves alone *)

\* C30: a change of the selected timezone, the search term, the active tab
\* or the theme leaves the selected day, the selected minute, the stage list
\* and the current performances as they were; a change of the day, the
\* minute or either toggle leaves the chronological list and the
\* search-filtered list as they were.
C30_Frames ==
    [][/\ (\/ selectedTimezone' # selectedTimezone
           \/ searchTerm' # searchTerm
           \/ activeTab' # activeTab
           \/ theme' # theme) =>
              UNCHANGED <<selectedDay, selectedTime, stages,
                          filteredPerformances>>
       /\ (\/ selectedDay' # selectedDay
           \/ selectedTime' # selectedTime
           \/ hideEmptyStages' # hideEmptyStages
           \/ hideNoStreamStages' # hideNoStreamStages) =>
              UNCHANGED <<chronologicalPerformances,
                          filteredChronologicalPerformances>>]_vars

\* Saturday at 16:00 was selected, with its stage and set showing; then the
\* timezone, the theme, the tab and the search term were changed.
C30_Witness ==
    /\ selectedDay = "Saturday"
    /\ selectedTime = 960
    /\ stages = <<"Sahara">>
    /\ Len(filteredPerformances) = 1
    /\ selectedTimezone = "UTC"
    /\ theme = "dark"
    /\ activeTab = "list"
    /\ searchTerm = <<"b">>
    /\ Len(filteredChronologicalPerformances) = 1
    /\ Len(chronologicalPerformances) = 2

=============================================================================
